---- MODULE Spec2Model ----
\* Model of the rule executor (src/src/rules.rs) and of the generic tree
\* traversals (src/src/trees.rs) of spark-catalyst-rs.
\*
\* RuleExecutor::execute is modelled statement by statement: the position in
\* the function is pc, its locals are variables of the same name.  A plan is
\* a counter value; the rules a batch holds and the integrity predicate are
\* the caller's (the trait leaves them abstract), so they are drawn from a
\* small catalogue.  The batches of Self::batches() are read one at a time,
\* as the `for batch in ...` loop reads them.
EXTENDS Integers, Sequences, FiniteSets, TLC

\* ---------------------------------------------------------------- bounds
\* Largest counter value that still is an integral plan (the "ceiling").
Ceiling == 2
\* Largest n of the FixedPoint(n) strategies drawn in Spec.
MaxIter == 3
\* Largest number of rules in a batch.
MaxRules == 2
\* Largest number of batches returned by batches().
MaxBatches == 2
\* Largest value of u16 (the type of Strategy::FixedPoint's field and of
\* the iteration counter it is compared with).
MaxU16 == 65535
\* The ghost pass counter saturates here (one more than u16 can count).
PassLimit == 65536
\* Largest number of nodes of a tree the traversals are run on.
MaxNodes == 5
\* Number of nodes of the one large tree the pretty-printer is run on.
ManyNodes == 101

VARIABLES
    plan,              \* the caller's plan, the argument of execute
    numBatches,        \* Self::batches().len()
    batchIdx,          \* number of batches the for loop has entered
    batch,             \* the batch the for loop is at
    current_plan,
    batch_start_plan,
    last_plan,
    iteration,
    do_continue,
    ruleIdx,           \* i of `for i in 0..batch.num_rules()`
    pc,                \* position in execute
    result,            \* what execute returned
    events,            \* debug! events of the batch the loop is at
    passes,            \* ghost: passes of the while loop completed in this batch
    passTrace,         \* ghost: the rule applications of the latest pass
    checked,           \* ghost: integrity checks in the latest pass
    lastApplied,       \* ghost: <<batch index, rule index>> of the last application
    tree,              \* the tree a traversal is called on
    op,                \* the traversal that is running, "none" between calls
    stack,             \* its call stack: one frame per active recursive call
    visited,           \* the nodes its visitor was invoked on so far, in order
    done,              \* the calls that returned: [op, visited], and more
    func,              \* the closure the running call was given
    res                \* the buffer the running call collects its output in

\* The variables of the traversals.
treeVars == <<tree, op, stack, visited, done, func, res>>

vars == <<treeVars, plan, numBatches, batchIdx, batch, current_plan, batch_start_plan,
          last_plan, iteration, do_continue, ruleIdx, pc, result, events,
          passes, passTrace, checked, lastApplied>>

\* ---------------------------------------------------------------- plans
\* The counter values 0..Ceiling are integral plans, Ceiling + 1 is the one
\* plan that fails the structural integrity check.
NonIntegral == Ceiling + 1

Plans == 0 .. NonIntegral

is_plan_integral(p) == p # NonIntegral

\* ---------------------------------------------------------------- rules
\* The catalogue of rules: each is a total function of the plan.
\*   inc      adds 1 while the counter is below the ceiling
\*   flip     exchanges the plans 0 and 1
\*   bump     adds 1 also at the ceiling, which yields the non-integral plan
\*   corrupt  returns the non-integral plan
RuleNames == {"inc", "flip", "bump", "corrupt"}

apply(rule, p) ==
    CASE rule = "inc"     -> IF p < Ceiling THEN p + 1 ELSE p
      [] rule = "flip"    -> IF p = 0 THEN 1 ELSE IF p = 1 THEN 0 ELSE p
      [] rule = "bump"    -> IF p <= Ceiling THEN p + 1 ELSE p
      [] rule = "corrupt" -> NonIntegral

\* Rule::name
name(rule) == rule

RECURSIVE SeqsUpTo(_, _)
SeqsUpTo(S, n) ==
    IF n = 0 THEN {<<>>}
    ELSE LET shorter == SeqsUpTo(S, n - 1)
         IN  shorter \cup {Append(s, x) : s \in shorter, x \in S}

RuleLists == SeqsUpTo(RuleNames, MaxRules)

\* ---------------------------------------------------------------- strategy
Once == <<"Once">>

FixedPoint(n) == <<"FixedPoint", n>>

Strategies == {Once} \cup {FixedPoint(n) : n \in 0 .. MaxIter}

WideStrategies == {FixedPoint(MaxU16)}

\* Mutant: Once counted as two iterations.
num_iterations_OnceTwice(strategy) ==
    IF strategy[1] = "Once" THEN 2 ELSE strategy[2]

num_iterations(strategy) ==
    IF strategy[1] = "Once" THEN 1 ELSE strategy[2]

\* ---------------------------------------------------------------- batch
NoBatch == [name |-> <<"batch", 0>>, strategy |-> Once, rules |-> <<>>]

Batch(i, strategy, rules) ==
    [name |-> <<"batch", i>>, strategy |-> strategy, rules |-> rules]

num_rules(b) == Len(b.rules)

\* Mutant: the rules indexed from the end of the list.
get_rule_Reversed(b, i) == b.rules[Len(b.rules) - i]

\* get_rule(i) of a 0-based index
get_rule(b, i) == b.rules[i + 1]

\* ---------------------------------------------------------------- errors
NoResult == [kind |-> "none"]

Ok(p) == [kind |-> "Ok", plan |-> p]

\* tree_err!("After applying rule {} in batch {}, ...", rule.name(), batch.name())
tree_err(ruleName, batchName) ==
    [kind |-> "Err", rule |-> ruleName, batch |-> batchName]

\* ---------------------------------------------------------------- execute
\* Mutant: the cap test off by one.
cap_reached_OffByOne(iter, strategy) == iter >= num_iterations(strategy)

\* Mutant: the plans are never found equal.
converged_Never(cur, last) == FALSE

cap_reached(iter, strategy) == iter > num_iterations(strategy)

converged(cur, last) == cur = last

\* No traversal is called during execute.
NoTraversal ==
    /\ tree = [label |-> "a", children |-> <<>>]
    /\ op = "none"
    /\ stack = <<>>
    /\ visited = <<>>
    /\ done = <<>>
    /\ func = "none"
    /\ res = <<>>

Init ==
    /\ NoTraversal
    /\ plan \in Plans
    /\ numBatches \in 0 .. MaxBatches
    /\ batchIdx = 0
    /\ batch = NoBatch
    /\ current_plan = plan
    /\ batch_start_plan = plan
    /\ last_plan = plan
    /\ iteration = 1
    /\ do_continue = TRUE
    /\ ruleIdx = 0
    /\ pc = "for_batch"
    /\ result = NoResult
    /\ events = {}
    /\ passes = 0
    /\ passTrace = <<>>
    /\ checked = 0
    /\ lastApplied = <<0, 0>>

\* Mutant: the cap is tested before the first pass (a while loop over the
\* counter instead of the flag).
EnterBatch_TestsFirst(strategies) ==
    /\ pc = "for_batch"
    /\ batchIdx < numBatches
    /\ \E s \in strategies, rs \in RuleLists :
          /\ batch' = Batch(batchIdx + 1, s, rs)
          /\ pc' = IF cap_reached(1, s) THEN "batch_end" ELSE "for_rule"
    /\ batchIdx' = batchIdx + 1
    /\ iteration' = 1
    /\ do_continue' = TRUE
    /\ batch_start_plan' = current_plan
    /\ last_plan' = current_plan
    /\ ruleIdx' = 0
    /\ events' = {}
    /\ passes' = 0
    /\ passTrace' = <<>>
    /\ checked' = 0
    /\ UNCHANGED <<treeVars, plan, numBatches, current_plan, result, lastApplied>>

\* `for batch in Self::batches()`: the next batch is entered and the locals
\* of the loop body are initialised (lines 99-107).
EnterBatch(strategies) ==
    /\ pc = "for_batch"
    /\ batchIdx < numBatches
    /\ \E s \in strategies, rs \in RuleLists :
          batch' = Batch(batchIdx + 1, s, rs)
    /\ batchIdx' = batchIdx + 1
    /\ iteration' = 1
    /\ do_continue' = TRUE
    /\ batch_start_plan' = current_plan
    /\ last_plan' = current_plan
    /\ ruleIdx' = 0
    /\ pc' = "for_rule"
    /\ events' = {}
    /\ passes' = 0
    /\ passTrace' = <<>>
    /\ checked' = 0
    /\ UNCHANGED <<treeVars, plan, numBatches, current_plan, result, lastApplied>>

StartBatch == EnterBatch(Strategies)

\* Mutant: the integrity check is made after the last rule of a pass only.
ApplyRule_CheckAtPassEnd ==
    /\ pc = "for_rule"
    /\ ruleIdx < num_rules(batch)
    /\ current_plan' = apply(batch.rules[ruleIdx + 1], current_plan)
    /\ LET entry == [i |-> ruleIdx, in |-> current_plan, out |-> current_plan']
       IN  passTrace' = IF ruleIdx = 0 THEN <<entry>> ELSE Append(passTrace, entry)
    /\ checked' = IF ruleIdx = 0 THEN 0 ELSE checked
    /\ lastApplied' = <<batchIdx, ruleIdx>>
    /\ IF ruleIdx + 1 = num_rules(batch)
       THEN pc' = "check" /\ UNCHANGED ruleIdx
       ELSE pc' = "for_rule" /\ ruleIdx' = ruleIdx + 1
    /\ UNCHANGED <<treeVars, plan, numBatches, batchIdx, batch, batch_start_plan, last_plan,
                   iteration, do_continue, result, events, passes>>

\* Mutant: last_plan is the same object as current_plan, so that the
\* output of the rule shows in both.
ApplyRule_SharedSnapshot ==
    /\ pc = "for_rule"
    /\ ruleIdx < num_rules(batch)
    /\ current_plan' = apply(get_rule(batch, ruleIdx), current_plan)
    /\ last_plan' = current_plan'
    /\ LET entry == [i |-> ruleIdx, in |-> current_plan, out |-> current_plan']
       IN  passTrace' = IF ruleIdx = 0 THEN <<entry>> ELSE Append(passTrace, entry)
    /\ checked' = IF ruleIdx = 0 THEN 0 ELSE checked
    /\ lastApplied' = <<batchIdx, ruleIdx>>
    /\ pc' = "check"
    /\ UNCHANGED <<treeVars, plan, numBatches, batchIdx, batch, batch_start_plan,
                   iteration, do_continue, ruleIdx, result, events, passes>>

\* `current_plan = rule.apply(&current_plan)` (lines 108-110)
ApplyRule ==
    /\ pc = "for_rule"
    /\ ruleIdx < num_rules(batch)
    /\ current_plan' = apply(get_rule(batch, ruleIdx), current_plan)
    /\ LET entry == [i |-> ruleIdx, in |-> current_plan, out |-> current_plan']
       IN  passTrace' = IF ruleIdx = 0 THEN <<entry>> ELSE Append(passTrace, entry)
    /\ checked' = IF ruleIdx = 0 THEN 0 ELSE checked
    /\ lastApplied' = <<batchIdx, ruleIdx>>
    /\ pc' = "check"
    /\ UNCHANGED <<treeVars, plan, numBatches, batchIdx, batch, batch_start_plan, last_plan,
                   iteration, do_continue, ruleIdx, result, events, passes>>

\* Mutant: a failed integrity check leaves the for loop over the rules
\* instead of returning.
CheckIntegrity_BreaksOnly ==
    /\ pc = "check"
    /\ checked' = checked + 1
    /\ ruleIdx' = IF ~is_plan_integral(current_plan)
                  THEN num_rules(batch) ELSE ruleIdx + 1
    /\ pc' = "for_rule"
    /\ UNCHANGED <<treeVars, plan, numBatches, batchIdx, batch, current_plan, batch_start_plan,
                   last_plan, iteration, do_continue, result, events, passes,
                   passTrace, lastApplied>>

\* `if !Self::is_plan_integral(&current_plan) { return tree_err!(...) }`
\* (lines 112-115)
CheckIntegrity ==
    /\ pc = "check"
    /\ checked' = checked + 1
    /\ IF ~is_plan_integral(current_plan)
       THEN /\ result' = tree_err(name(get_rule(batch, ruleIdx)), batch.name)
            /\ pc' = "returned"
            /\ UNCHANGED ruleIdx
       ELSE /\ ruleIdx' = ruleIdx + 1
            /\ pc' = "for_rule"
            /\ UNCHANGED result
    /\ UNCHANGED <<treeVars, plan, numBatches, batchIdx, batch, current_plan, batch_start_plan,
                   last_plan, iteration, do_continue, events, passes, passTrace,
                   lastApplied>>

\* Mutant: last_plan is not refreshed at the end of a pass, so that the
\* plan is compared with the plan the batch was entered with.
PassTail_KeepsLast(iter) ==
    LET cap  == cap_reached(iter, batch.strategy)
        conv == converged(current_plan, last_plan)
        capEvent == IF cap /\ num_iterations(batch.strategy) > 1
                    THEN {"max iterations reached"} ELSE {}
        convEvent == IF conv THEN {"fixed point reached"} ELSE {}
    IN  /\ iteration' = iter
        /\ events' = events \cup capEvent \cup convEvent
        /\ do_continue' = (do_continue /\ ~cap /\ ~conv)
        /\ last_plan' = last_plan
        /\ passes' = IF passes < PassLimit THEN passes + 1 ELSE passes
        /\ ruleIdx' = 0
        /\ pc' = IF do_continue' THEN "for_rule" ELSE "batch_end"
        /\ UNCHANGED <<treeVars, plan, numBatches, batchIdx, batch, current_plan,
                       batch_start_plan, result, passTrace, checked, lastApplied>>

\* The rest of the while body once the for loop over the rules is
\* exhausted (lines 117-134), for the given incremented counter, and the
\* test of `while do_continue` that follows it.
PassTail(iter) ==
    LET cap  == cap_reached(iter, batch.strategy)
        conv == converged(current_plan, last_plan)
        capEvent == IF cap /\ num_iterations(batch.strategy) > 1
                    THEN {"max iterations reached"} ELSE {}
        convEvent == IF conv THEN {"fixed point reached"} ELSE {}
    IN  /\ iteration' = iter
        /\ events' = events \cup capEvent \cup convEvent
        /\ do_continue' = (do_continue /\ ~cap /\ ~conv)
        /\ last_plan' = IF conv THEN last_plan ELSE current_plan
        /\ passes' = IF passes < PassLimit THEN passes + 1 ELSE passes
        /\ ruleIdx' = 0
        /\ pc' = IF do_continue' THEN "for_rule" ELSE "batch_end"
        /\ UNCHANGED <<treeVars, plan, numBatches, batchIdx, batch, current_plan,
                       batch_start_plan, result, passTrace, checked, lastApplied>>

\* `iteration += 1` without overflow, then the tail of the pass.
EndPass ==
    /\ pc = "for_rule"
    /\ ruleIdx = num_rules(batch)
    /\ iteration < MaxU16
    /\ PassTail(iteration + 1)

\* `iteration += 1` at u16::MAX in a build without overflow checks: the
\* counter wraps to 0.
EndPassWrap ==
    /\ pc = "for_rule"
    /\ ruleIdx = num_rules(batch)
    /\ iteration = MaxU16
    /\ PassTail(0)

\* `iteration += 1` at u16::MAX in a build with overflow checks: the thread
\* panics ("attempt to add with overflow") and execute returns nothing.
EndPassPanic ==
    /\ pc = "for_rule"
    /\ ruleIdx = num_rules(batch)
    /\ iteration = MaxU16
    /\ pc' = "panicked"
    /\ UNCHANGED <<treeVars, plan, numBatches, batchIdx, batch, current_plan, batch_start_plan,
                   last_plan, iteration, do_continue, ruleIdx, result, events,
                   passes, passTrace, checked, lastApplied>>

\* Mutant: the report compares the plan with the snapshot of the previous
\* pass.
EndBatch_AgainstLast ==
    /\ pc = "batch_end"
    /\ events' = events \cup (IF last_plan # current_plan
                              THEN {"updated current plan"}
                              ELSE {"has no effect"})
    /\ pc' = "for_batch"
    /\ UNCHANGED <<treeVars, plan, numBatches, batchIdx, batch, current_plan, batch_start_plan,
                   last_plan, iteration, do_continue, ruleIdx, result, passes,
                   passTrace, checked, lastApplied>>

\* The report at the end of a batch (lines 137-142).
EndBatch ==
    /\ pc = "batch_end"
    /\ events' = events \cup (IF batch_start_plan # current_plan
                              THEN {"updated current plan"}
                              ELSE {"has no effect"})
    /\ pc' = "for_batch"
    /\ UNCHANGED <<treeVars, plan, numBatches, batchIdx, batch, current_plan, batch_start_plan,
                   last_plan, iteration, do_continue, ruleIdx, result, passes,
                   passTrace, checked, lastApplied>>

\* Mutant: the plan is checked once more before it is returned.
ReturnOk_ChecksPlan ==
    /\ pc = "for_batch"
    /\ batchIdx = numBatches
    /\ result' = IF is_plan_integral(current_plan) THEN Ok(current_plan)
                 ELSE tree_err("none", batch.name)
    /\ pc' = "returned"
    /\ UNCHANGED <<treeVars, plan, numBatches, batchIdx, batch, current_plan, batch_start_plan,
                   last_plan, iteration, do_continue, ruleIdx, events, passes,
                   passTrace, checked, lastApplied>>

\* `Ok(current_plan)` (line 144)
ReturnOk ==
    /\ pc = "for_batch"
    /\ batchIdx = numBatches
    /\ result' = Ok(current_plan)
    /\ pc' = "returned"
    /\ UNCHANGED <<treeVars, plan, numBatches, batchIdx, batch, current_plan, batch_start_plan,
                   last_plan, iteration, do_continue, ruleIdx, events, passes,
                   passTrace, checked, lastApplied>>

Next ==
    \/ StartBatch
    \/ ApplyRule
    \/ CheckIntegrity
    \/ EndPass
    \/ EndBatch
    \/ ReturnOk

Spec == Init /\ [][Next]_vars

\* ---------------------------------------------------------------- u16
\* The same executor with one batch whose strategy is FixedPoint(u16::MAX),
\* the largest value the type of the field admits.  execute is one
\* synchronous call that runs to completion, so the step it is at is
\* always taken: weak fairness of the next-state relation.
InitWide == Init /\ numBatches = 1

StartBatchWide == EnterBatch(WideStrategies)

NextWide ==
    \/ StartBatchWide
    \/ ApplyRule
    \/ CheckIntegrity
    \/ EndPass
    \/ EndPassWrap
    \/ EndPassPanic
    \/ EndBatch
    \/ ReturnOk

SpecWide == InitWide /\ [][NextWide]_vars /\ WF_vars(NextWide)

\* ================================================================ trees
\* A node is a record of a label and the sequence of its children, as
\* TestNode is.  A reference to a node of the tree (`&A`) is the path to it:
\* the 0-based child indices from the root.
Labels == {"a", "b"}

Node(label, children) == [label |-> label, children |-> children]

\* The trees of exactly n nodes and the sequences of trees of n nodes in all.
RECURSIVE TreesOfSize(_), ForestsOfSize(_)
TreesOfSize(n) ==
    {Node(l, cs) : l \in Labels, cs \in ForestsOfSize(n - 1)}

ForestsOfSize(n) ==
    IF n = 0 THEN {<<>>}
    ELSE UNION {{<<t>> \o f : t \in TreesOfSize(k), f \in ForestsOfSize(n - k)}
                : k \in 1 .. n}

Trees == UNION {TreesOfSize(n) : n \in 1 .. MaxNodes}

None == <<>>

Some(x) == <<x>>

\* The node a reference points to.
RECURSIVE NodeAt(_, _)
NodeAt(t, path) ==
    IF path = <<>> THEN t ELSE NodeAt(t.children[Head(path) + 1], Tail(path))

num_children(node) == Len(NodeAt(tree, node).children)

\* Mutant: the children indexed from the last one.
get_child_Reversed(node, idx) ==
    IF idx < num_children(node)
    THEN Some(Append(node, num_children(node) - 1 - idx)) ELSE None

\* get_child(idx): `self.children.get(idx)`
get_child(node, idx) ==
    IF idx < num_children(node) THEN Some(Append(node, idx)) ELSE None

Frame(node, at) == [node |-> node, idx |-> 0, at |-> at]

Top == stack[Len(stack)]

\* The stack with its top frame replaced.
WithTop(f) == [stack EXCEPT ![Len(stack)] = f]

\* The stack after the call of the top frame returned: the caller goes on
\* with `idx += 1`.
Returned ==
    LET rest == SubSeq(stack, 1, Len(stack) - 1)
    IN  IF rest = <<>> THEN rest
        ELSE [rest EXCEPT ![Len(rest)].idx = @ + 1]

execIdle ==
    /\ plan = 0
    /\ numBatches = 0
    /\ batchIdx = 0
    /\ batch = NoBatch
    /\ current_plan = 0
    /\ batch_start_plan = 0
    /\ last_plan = 0
    /\ iteration = 1
    /\ do_continue = TRUE
    /\ ruleIdx = 0
    /\ pc = "idle"
    /\ result = NoResult
    /\ events = {}
    /\ passes = 0
    /\ passTrace = <<>>
    /\ checked = 0
    /\ lastApplied = <<0, 0>>

execVars == <<plan, numBatches, batchIdx, batch, current_plan, batch_start_plan,
              last_plan, iteration, do_continue, ruleIdx, pc, result, events,
              passes, passTrace, checked, lastApplied>>

\* No call is running: no closure, an empty buffer.
idleCall ==
    /\ op = "none"
    /\ stack = <<>>
    /\ visited = <<>>
    /\ func = "none"
    /\ res = <<>>

InitTree ==
    /\ execIdle
    /\ tree \in Trees
    /\ idleCall
    /\ done = <<>>

\* The traversals that were called on the tree and returned.
Called == {done[k].op : k \in 1 .. Len(done)}

\* The log of returned calls once the running call returns value too.
DoneReturning(log, value) ==
    Append(done, [op |-> op, func |-> func, visited |-> log, result |-> value])

\* The log of returned calls once the running call returns too.
DoneWith(log) == DoneReturning(log, res)

\* The running call returns value to the test that called it.
Finish(log, value) ==
    /\ op' = "none"
    /\ func' = "none"
    /\ res' = <<>>
    /\ done' = DoneReturning(log, value)

\* `fn is_leaf(&self) -> bool { self.num_children() == 0 }`
is_leaf(n) == Len(n.children) = 0

\* The closures the tests hand to the traversals, by name, applied to the
\* node n they are given.
FindFuncs == {"named_a", "named_b", "two_children", "unknown"}

MapFuncs == {"node_name", "is_leaf"}

FlatMapFuncs == {"child_names", "name_and_leaf"}

CollectFuncs == {"name_if_parent", "arity_if_a"}

Apply(f, n) ==
    CASE f = "named_a" -> n.label = "a"
      [] f = "named_b" -> n.label = "b"
      [] f = "two_children" -> Len(n.children) = 2
      [] f = "unknown" -> FALSE
      [] f = "node_name" -> n.label
      [] f = "is_leaf" -> is_leaf(n)
      [] f = "child_names" -> [i \in 1 .. Len(n.children) |-> n.children[i].label]
      [] f = "name_and_leaf" -> <<n.label, is_leaf(n)>>
      [] f = "name_if_parent" -> IF ~is_leaf(n) THEN Some(n.label) ELSE None
      [] f = "arity_if_a" -> IF n.label = "a" THEN Some(Len(n.children)) ELSE None
      [] f = "leaf_clone" -> IF is_leaf(n) THEN Some(n) ELSE None

\* A test calls one of foreach and foreach_up after the other, or one of
\* the other operations on a tree of its own.
MayVisit(o) ==
    /\ op = "none"
    /\ o \notin Called
    /\ Called \subseteq {"foreach", "foreach_up"}

Fresh == op = "none" /\ done = <<>>

\* tree.foreach(func) is called on the root, with a visitor that records
\* the node it is given.
CallForeach ==
    /\ MayVisit("foreach")
    /\ op' = "foreach"
    /\ func' = "record"
    /\ stack' = <<Frame(<<>>, "enter")>>
    /\ visited' = <<>>
    /\ UNCHANGED <<tree, done, res, execVars>>

\* tree.foreach_up(func) is called on the root, with the same visitor.
CallForeachUp ==
    /\ MayVisit("foreach_up")
    /\ op' = "foreach_up"
    /\ func' = "record"
    /\ stack' = <<Frame(<<>>, "loop")>>
    /\ visited' = <<>>
    /\ UNCHANGED <<tree, done, res, execVars>>

\* The calls in ops returned, and no call is running.
After(ops) == op = "none" /\ Called = ops

\* map, flat_map, collect: `let mut res = Vec::new();` and then foreach on
\* the root, through internal_map and internal_flat_map (lines 82-116);
\* collect_leaves is collect with a closure of its own (line 120).
CallOverForeach(o, f) ==
    /\ op' = o
    /\ func' = f
    /\ res' = <<>>
    /\ stack' = <<Frame(<<>>, "enter")>>
    /\ visited' = <<>>
    /\ UNCHANGED <<tree, done, execVars>>

\* The four collecting operations are called one after the other on one
\* tree, as the tests of the file call them.
CallMap ==
    /\ Fresh
    /\ \E f \in MapFuncs : CallOverForeach("map", f)

CallFlatMap ==
    /\ After({"map"})
    /\ \E f \in FlatMapFuncs : CallOverForeach("flat_map", f)

CallCollect ==
    /\ After({"map", "flat_map"})
    /\ \E f \in CollectFuncs : CallOverForeach("collect", f)

CallCollectLeaves ==
    /\ After({"map", "flat_map", "collect"})
    /\ CallOverForeach("collect_leaves", "leaf_clone")

\* The operations that run foreach.
ForeachOps == {"foreach", "map", "flat_map", "collect", "collect_leaves"}

\* Mutant: the closures put what they got at the front of the buffer.
visitor_AtFront(n) ==
    CASE op = "map" -> <<Apply(func, n)>> \o res
      [] op = "flat_map" -> Apply(func, n) \o res
      [] op \in {"collect", "collect_leaves"} ->
            IF Apply(func, n) # None THEN <<Apply(func, n)[1]>> \o res ELSE res
      [] OTHER -> res

\* The buffer after the closure foreach was given ran on node n:
\* `res.push(func(node))` (line 83), `res.append(&mut func(node))` (line 95),
\* `if let Some(value) = func(node) { res.push(value); }` (lines 110-112).
visitor(n) ==
    CASE op = "map" -> Append(res, Apply(func, n))
      [] op = "flat_map" -> res \o Apply(func, n)
      [] op \in {"collect", "collect_leaves"} ->
            IF Apply(func, n) # None THEN Append(res, Apply(func, n)[1]) ELSE res
      [] OTHER -> res

\* foreach: `func(self.get()); let mut idx = 0;` (lines 63-64)
ForeachVisit ==
    /\ op \in ForeachOps
    /\ stack # <<>>
    /\ Top.at = "enter"
    /\ visited' = Append(visited, Top.node)
    /\ res' = visitor(NodeAt(tree, Top.node))
    /\ stack' = WithTop([Top EXCEPT !.at = "loop"])
    /\ UNCHANGED <<tree, op, done, func, execVars>>

\* foreach: `while let Some(child) = self.get_child(idx) { child.foreach(func)`
\* (lines 65-66)
ForeachChild ==
    /\ op \in ForeachOps
    /\ stack # <<>>
    /\ Top.at = "loop"
    /\ get_child(Top.node, Top.idx) # None
    /\ stack' = Append(stack, Frame(get_child(Top.node, Top.idx)[1], "enter"))
    /\ UNCHANGED <<tree, op, visited, done, func, res, execVars>>

\* foreach: get_child(idx) is None, the call returns (line 69) and its
\* caller does `idx += 1` (line 67); the operation that ran foreach on the
\* root returns its buffer.
ForeachReturn ==
    /\ op \in ForeachOps
    /\ stack # <<>>
    /\ Top.at = "loop"
    /\ get_child(Top.node, Top.idx) = None
    /\ stack' = Returned
    /\ IF stack' = <<>>
       THEN Finish(visited, res)
       ELSE UNCHANGED <<op, done, func, res>>
    /\ UNCHANGED <<tree, visited, execVars>>

\* foreach_up: `while let Some(child) = self.get_child(idx) {
\* child.foreach_up(func)` (lines 73-75)
ForeachUpChild ==
    /\ op = "foreach_up"
    /\ stack # <<>>
    /\ get_child(Top.node, Top.idx) # None
    /\ stack' = Append(stack, Frame(get_child(Top.node, Top.idx)[1], "loop"))
    /\ UNCHANGED <<tree, op, visited, done, func, res, execVars>>

\* foreach_up: get_child(idx) is None, `func(self.get())` (line 78), the
\* call returns and its caller does `idx += 1` (line 76).
ForeachUpVisit ==
    /\ op = "foreach_up"
    /\ stack # <<>>
    /\ get_child(Top.node, Top.idx) = None
    /\ visited' = Append(visited, Top.node)
    /\ stack' = Returned
    /\ IF stack' = <<>>
       THEN Finish(visited', res)
       ELSE UNCHANGED <<op, done, func, res>>
    /\ UNCHANGED <<tree, execVars>>

\* tree.find(func) is called on the root.
CallFind ==
    /\ Fresh
    /\ \E f \in FindFuncs : func' = f
    /\ op' = "find"
    /\ stack' = <<Frame(<<>>, "enter")>>
    /\ visited' = <<>>
    /\ UNCHANGED <<tree, done, res, execVars>>

\* Mutant: the result of the recursive call is dropped, `res @ Some(_)`
\* does not return and the loop goes on with the next child.
FindTest_DropsChildResult ==
    /\ op = "find"
    /\ stack # <<>>
    /\ Top.at = "enter"
    /\ visited' = Append(visited, Top.node)
    /\ IF Apply(func, NodeAt(tree, Top.node))
       THEN /\ stack' = Returned
            /\ IF stack' = <<>>
               THEN Finish(visited', Some(Top.node))
               ELSE UNCHANGED <<op, done, func, res>>
       ELSE /\ stack' = WithTop([Top EXCEPT !.at = "loop"])
            /\ UNCHANGED <<op, done, func, res>>
    /\ UNCHANGED <<tree, execVars>>

\* find: `if func(self.get()) { return Some(self.get()); }` (lines 47-49);
\* every caller up to the root returns the node at once,
\* `res @ Some(_) => return res` (line 53).
FindTest ==
    /\ op = "find"
    /\ stack # <<>>
    /\ Top.at = "enter"
    /\ visited' = Append(visited, Top.node)
    /\ IF Apply(func, NodeAt(tree, Top.node))
       THEN /\ stack' = <<>>
            /\ Finish(visited', Some(Top.node))
       ELSE /\ stack' = WithTop([Top EXCEPT !.at = "loop"])
            /\ UNCHANGED <<op, done, func, res>>
    /\ UNCHANGED <<tree, execVars>>

\* find: `while let Some(child) = self.get_child(idx) { match child.find(func)`
\* (lines 51-52)
FindChild ==
    /\ op = "find"
    /\ stack # <<>>
    /\ Top.at = "loop"
    /\ get_child(Top.node, Top.idx) # None
    /\ stack' = Append(stack, Frame(get_child(Top.node, Top.idx)[1], "enter"))
    /\ UNCHANGED <<tree, op, visited, done, func, res, execVars>>

\* find: get_child(idx) is None, the call returns None (line 58) and its
\* caller does `idx += 1` (lines 54-56).
FindNone ==
    /\ op = "find"
    /\ stack # <<>>
    /\ Top.at = "loop"
    /\ get_child(Top.node, Top.idx) = None
    /\ stack' = Returned
    /\ IF stack' = <<>>
       THEN Finish(visited, None)
       ELSE UNCHANGED <<op, done, func, res>>
    /\ UNCHANGED <<tree, visited, execVars>>

NextTree ==
    \/ CallForeach
    \/ CallForeachUp
    \/ ForeachVisit
    \/ ForeachChild
    \/ ForeachReturn
    \/ ForeachUpChild
    \/ ForeachUpVisit
    \/ CallFind
    \/ FindTest
    \/ FindChild
    \/ FindNone
    \/ CallMap
    \/ CallFlatMap
    \/ CallCollect
    \/ CallCollectLeaves

SpecTree == InitTree /\ [][NextTree]_vars

\* ============================================================ transforms
\* map_children, transform_down and transform_up build a new tree.  The node
\* a call works on (`&self`) is a node of the tree the test called the
\* operation on, known by its path, or a node of a replacement a rule
\* returned, which no path of the tree leads to.
Ref(path, n) == [path |-> path, node |-> n]

\* Mutant: the last child of a node is not handed out.
get_child_of_LastHidden(ref, idx) ==
    IF idx + 1 < Len(ref.node.children)
    THEN Some(Ref(IF ref.path = None THEN None ELSE Some(Append(ref.path[1], idx)),
                  ref.node.children[idx + 1]))
    ELSE None

\* `self.get_child(idx)` of a referenced node: a reference to the child.
get_child_of(ref, idx) ==
    IF idx < Len(ref.node.children)
    THEN Some(Ref(IF ref.path = None THEN None ELSE Some(Append(ref.path[1], idx)),
                  ref.node.children[idx + 1]))
    ELSE None

\* Mutant: the copy shares the node it was taken of.
clone_Alias(ref) == [alias |-> ref.path, node |-> ref.node]

\* `self.get().clone()` (line 126): a node of its own, equal to the
\* referenced one (TestNode derives Clone, line 204).
clone(ref) == [alias |-> None, node |-> ref.node]

\* Mutant: every child is put in the first place.
set_child_First(n, idx, child) == [n EXCEPT !.children[1] = child]

\* `self.children[idx] = child` (line 240)
set_child(n, idx, child) == [n EXCEPT !.children[idx + 1] = child]

\* Tree t with the subtree at path replaced by sub.
RECURSIVE ReplaceAt(_, _, _)
ReplaceAt(t, path, sub) ==
    IF path = <<>> THEN sub
    ELSE [t EXCEPT !.children[Head(path) + 1] = ReplaceAt(@, Tail(path), sub)]

\* `cloned_node.set_child(idx, child)` (line 129): the copy after it, and
\* the tree after it (the tree changes only when the copy is no copy).
copy_after_set(copy, idx, child) ==
    [copy EXCEPT !.node = set_child(@, idx, child)]

tree_after_set(copy, idx, child) ==
    IF copy.alias = None THEN tree
    ELSE ReplaceAt(tree, Append(copy.alias[1], idx), child)

\* The label a test closure gives the node it rewrites (the tests append
\* "-#", line 379).
marked(label) ==
    CASE label = "a" -> "A"
      [] label = "b" -> "B"
      [] OTHER -> label

\* The closures handed to map_children, by name: f(n).
ChildFuncs == {"mark", "prune", "grow"}

child_func(f, n) ==
    CASE f = "mark" -> Node(marked(n.label), n.children)
      [] f = "prune" -> Node(n.label, <<>>)
      [] f = "grow" -> Node(n.label, Append(n.children, Node("b", <<>>)))

\* The rules handed to the transforms, by name: rule(n) is Some(node) or
\* None.  "keep" never replaces; "mark_prune" replaces a node labelled a by
\* a marked leaf (as the rule of test_transform_down); "truncate" returns a
\* copy with the first child at most (as the rule of test_transform_up); "relabel"
\* changes a label only; "grow" gives a node labelled a one more child.
TreeRules == {"keep", "mark_prune", "truncate", "relabel", "grow"}

rule(r, n) ==
    CASE r = "keep" -> None
      [] r = "mark_prune" ->
            IF n.label = "a" THEN Some(Node(marked(n.label), <<>>)) ELSE None
      [] r = "truncate" ->
            Some(Node(n.label, IF Len(n.children) > 1 THEN <<n.children[1]>>
                               ELSE n.children))
      [] r = "relabel" ->
            IF n.label = "a" THEN Some(Node("b", n.children)) ELSE None
      [] r = "grow" ->
            IF n.label = "a"
            THEN Some(Node("b", Append(n.children, Node("b", <<>>)))) ELSE None

\* The frame of a call of map_children, transform_down or transform_up on
\* self: pos is the place of the node in the tree the call was made on by
\* the test (for transform_down: in the tree it returns), base the node
\* map_children runs on, cloned_node the local of map_children.
TFrame(self, pos, at) ==
    [self |-> self, pos |-> pos, idx |-> 0, at |-> at,
     base |-> self, cloned_node |-> clone(self)]

\* The frame of the call that called the top one.
Caller == stack[Len(stack) - 1]

\* The stack after the call of the top frame returned value: its caller
\* does `cloned_node.set_child(idx, value); idx += 1` (lines 129-130).
ReturnedWith(value) ==
    LET rest == SubSeq(stack, 1, Len(stack) - 1)
    IN  IF rest = <<>> THEN rest
        ELSE [rest EXCEPT ![Len(rest)] =
                 [Caller EXCEPT !.cloned_node = copy_after_set(@, Caller.idx, value),
                                !.idx = @ + 1]]

InitTransform ==
    /\ execIdle
    /\ tree \in Trees
    /\ idleCall
    /\ done = <<>>

\* tree.map_children(func) is called on the root:
\* `let mut cloned_node = self.get().clone(); let mut idx = 0;` (lines 126-127)
CallMapChildren ==
    /\ Fresh
    /\ \E f \in ChildFuncs : func' = f
    /\ op' = "map_children"
    /\ stack' = <<TFrame(Ref(Some(<<>>), tree), <<>>, "loop")>>
    /\ visited' = <<>>
    /\ UNCHANGED <<tree, done, res, execVars>>

\* map_children: `while let Some(child) = self.get_child(idx) {
\* cloned_node.set_child(idx, func(child)); idx += 1; }` (lines 128-131)
MapChildrenSet ==
    /\ op = "map_children"
    /\ stack # <<>>
    /\ get_child_of(Top.base, Top.idx) # None
    /\ LET child == get_child_of(Top.base, Top.idx)[1]
           value == child_func(func, child.node)
       IN  /\ visited' = Append(visited, [pos |-> Append(Top.pos, Top.idx), arg |-> child.node])
           /\ tree' = tree_after_set(Top.cloned_node, Top.idx, value)
           /\ stack' = WithTop([Top EXCEPT !.cloned_node = copy_after_set(@, Top.idx, value),
                                           !.idx = @ + 1])
    /\ UNCHANGED <<op, done, func, res, execVars>>

\* map_children: get_child(idx) is None, `cloned_node` is returned (line 132).
MapChildrenReturn ==
    /\ op = "map_children"
    /\ stack # <<>>
    /\ get_child_of(Top.base, Top.idx) = None
    /\ stack' = <<>>
    /\ Finish(visited, Top.cloned_node.node)
    /\ UNCHANGED <<tree, visited, execVars>>

\* tree.transform_down(rule) is called on the root.
CallTransformDown ==
    /\ Fresh
    /\ \E r \in TreeRules : func' = r
    /\ op' = "transform_down"
    /\ stack' = <<TFrame(Ref(Some(<<>>), tree), <<>>, "rule")>>
    /\ visited' = <<>>
    /\ UNCHANGED <<tree, done, res, execVars>>

\* Mutant: map_children runs on self whatever the rule returned, and the
\* replacement gets the transformed children of self.
DownRule_IntoOriginal ==
    /\ op = "transform_down"
    /\ stack # <<>>
    /\ Top.at = "rule"
    /\ visited' = Append(visited, [pos |-> Top.pos, arg |-> Top.self.node])
    /\ LET after_rule == rule(func, Top.self.node)
           kept == IF after_rule = None THEN Top.self.node
                   ELSE Node(after_rule[1].label, Top.self.node.children)
       IN  stack' = WithTop([Top EXCEPT !.at = "loop",
                                        !.base = Top.self,
                                        !.cloned_node = clone(Ref(None, kept))])
    /\ UNCHANGED <<tree, op, done, func, res, execVars>>

\* Mutant: the replacement of the rule is returned as it is, its children
\* are not transformed.
DownRule_StopsAtReplacement ==
    /\ op = "transform_down"
    /\ stack # <<>>
    /\ Top.at = "rule"
    /\ visited' = Append(visited, [pos |-> Top.pos, arg |-> Top.self.node])
    /\ LET after_rule == rule(func, Top.self.node)
           base == IF after_rule = None THEN Top.self ELSE Ref(None, after_rule[1])
       IN  stack' = WithTop([Top EXCEPT !.at = "loop",
                                        !.base = base,
                                        !.cloned_node = clone(base),
                                        !.idx = IF after_rule = None THEN 0
                                                ELSE Len(base.node.children)])
    /\ UNCHANGED <<tree, op, done, func, res, execVars>>

\* transform_down: `match rule(&self.get())` (line 138) and the start of
\* map_children on the replacement (line 139) or on self (line 140):
\* `let mut cloned_node = self.get().clone(); let mut idx = 0;`
DownRule ==
    /\ op = "transform_down"
    /\ stack # <<>>
    /\ Top.at = "rule"
    /\ visited' = Append(visited, [pos |-> Top.pos, arg |-> Top.self.node])
    /\ LET after_rule == rule(func, Top.self.node)
           base == IF after_rule = None THEN Top.self ELSE Ref(None, after_rule[1])
       IN  stack' = WithTop([Top EXCEPT !.at = "loop",
                                        !.base = base,
                                        !.cloned_node = clone(base)])
    /\ UNCHANGED <<tree, op, done, func, res, execVars>>

\* transform_down: the closure of map_children calls transform_down on the
\* next child of the node map_children runs on (lines 128-129, 139-140).
DownChild ==
    /\ op = "transform_down"
    /\ stack # <<>>
    /\ Top.at = "loop"
    /\ get_child_of(Top.base, Top.idx) # None
    /\ stack' = Append(stack, TFrame(get_child_of(Top.base, Top.idx)[1],
                                     Append(Top.pos, Top.idx), "rule"))
    /\ UNCHANGED <<tree, op, visited, done, func, res, execVars>>

\* transform_down: get_child(idx) is None, map_children returns cloned_node
\* (line 132) and so does transform_down; its caller sets the child.
DownReturn ==
    /\ op = "transform_down"
    /\ stack # <<>>
    /\ Top.at = "loop"
    /\ get_child_of(Top.base, Top.idx) = None
    /\ stack' = ReturnedWith(Top.cloned_node.node)
    /\ IF stack' = <<>>
       THEN /\ Finish(visited, Top.cloned_node.node)
            /\ UNCHANGED tree
       ELSE /\ tree' = tree_after_set(Caller.cloned_node, Caller.idx, Top.cloned_node.node)
            /\ UNCHANGED <<op, done, func, res>>
    /\ UNCHANGED <<visited, execVars>>

\* tree.transform_up(rule) is called on the root, first or after
\* transform_down with the same rule; it starts with map_children on self
\* (line 148).
CallTransformUp ==
    /\ \/ Fresh /\ \E r \in TreeRules : func' = r
       \/ /\ op = "none"
          /\ Called = {"transform_down"}
          /\ func' = done[1].func
    /\ op' = "transform_up"
    /\ stack' = <<TFrame(Ref(Some(<<>>), tree), <<>>, "loop")>>
    /\ visited' = <<>>
    /\ UNCHANGED <<tree, done, res, execVars>>

\* transform_up: the closure of map_children calls transform_up on the next
\* child of self (lines 128-129, 148).
UpChild ==
    /\ op = "transform_up"
    /\ stack # <<>>
    /\ get_child_of(Top.base, Top.idx) # None
    /\ stack' = Append(stack, TFrame(get_child_of(Top.base, Top.idx)[1],
                                     Append(Top.pos, Top.idx), "loop"))
    /\ UNCHANGED <<tree, op, visited, done, func, res, execVars>>

\* Mutant: the replacement of the rule is dropped.
up_result_Dropped(r, updated_node) == updated_node

\* The node transform_up returns for updated_node:
\* `match rule(&updated_node) { Some(after_rule) => after_rule,
\* None => updated_node }` (lines 149-152)
up_result(r, updated_node) ==
    IF rule(r, updated_node) = None THEN updated_node ELSE rule(r, updated_node)[1]

\* transform_up: get_child(idx) is None, map_children returns updated_node,
\* the rule is applied to it and the call returns; its caller sets the child.
UpRule ==
    /\ op = "transform_up"
    /\ stack # <<>>
    /\ get_child_of(Top.base, Top.idx) = None
    /\ LET updated_node == Top.cloned_node.node
           value == up_result(func, updated_node)
       IN  /\ visited' = Append(visited, [pos |-> Top.pos, arg |-> updated_node])
           /\ stack' = ReturnedWith(value)
           /\ IF stack' = <<>>
              THEN /\ Finish(visited', value)
                   /\ UNCHANGED tree
              ELSE /\ tree' = tree_after_set(Caller.cloned_node, Caller.idx, value)
                   /\ UNCHANGED <<op, done, func, res>>
    /\ UNCHANGED execVars

NextTransform ==
    \/ CallMapChildren
    \/ MapChildrenSet
    \/ MapChildrenReturn
    \/ CallTransformDown
    \/ DownRule
    \/ DownChild
    \/ DownReturn
    \/ CallTransformUp
    \/ UpChild
    \/ UpRule

\* A call of a transform is one synchronous call that runs to completion:
\* the step it is at is always taken.
SpecTransform == InitTransform /\ [][NextTransform]_vars /\ WF_vars(NextTransform)

\* ======================================================== pretty-printer
\* A string is the sequence of its characters; a label is one character.
node_name(n) == <<n.label>>

\* `" ".repeat(n)`
RECURSIVE repeat_space(_)
repeat_space(n) == IF n = 0 THEN <<>> ELSE <<" ">> \o repeat_space(n - 1)

\* Mutant: every node is drawn as a last child.
parent_prefix_AlwaysLast(depth, is_last_child) ==
    IF depth = 0 THEN <<>> ELSE <<"+", "-", " ">>

\* `if depth == 0 { "" } else if is_last_child { "+- " } else { "- " }`
\* (line 157)
parent_prefix(depth, is_last_child) ==
    IF depth = 0 THEN <<>>
    ELSE IF is_last_child THEN <<"+", "-", " ">> ELSE <<"-", " ">>

\* Mutant: no bar is drawn for a child that has siblings after it.
node_sym_Never(is_last_child) == <<>>

\* `if is_last_child { "" } else { ":" }` (line 166)
node_sym(is_last_child) == IF is_last_child THEN <<>> ELSE <<":">>

\* gen_tree (lines 156-172): the lines the call on node n pushes to the
\* buffer, in the order it pushes them; gen_children: the lines the
\* iterations of the while loop for the children idx = lo .. hi push.
RECURSIVE gen_tree(_, _, _, _), gen_children(_, _, _, _, _, _)
gen_tree(n, depth, prefix, is_last_child) ==
    LET curr == prefix \o parent_prefix(depth, is_last_child) \o node_name(n)
    IN  <<curr>> \o gen_children(n, 0, Len(n.children) - 1, depth + 1, prefix,
                                 parent_prefix(depth, is_last_child))

gen_children(n, lo, hi, depth, prefix, pp) ==
    IF lo > hi THEN <<>>
    ELSE IF lo = hi
    THEN LET is_last_child == lo = Len(n.children) - 1
             child_prefix == prefix \o repeat_space(Len(pp)) \o node_sym(is_last_child)
         IN  gen_tree(n.children[lo + 1], depth, child_prefix, is_last_child)
    ELSE gen_children(n, lo, (lo + hi) \div 2, depth, prefix, pp)
             \o gen_children(n, (lo + hi) \div 2 + 1, hi, depth, prefix, pp)

\* `let mut buffer = Vec::new(); self.gen_tree(0, "", false, &mut buffer);
\* buffer` (lines 175-179)
internal_tree_lines(n) == gen_tree(n, 0, <<>>, FALSE)

\* `lines.join("\n")`
RECURSIVE join(_, _)
join(lines, sep) ==
    IF lines = <<>> THEN <<>>
    ELSE IF Len(lines) = 1 THEN lines[1]
    ELSE LET mid == Len(lines) \div 2
         IN  join(SubSeq(lines, 1, mid), sep) \o sep
                 \o join(SubSeq(lines, mid + 1, Len(lines)), sep)

\* `self.internal_tree_lines().join("\n")` (line 184)
tree_string(n) == join(internal_tree_lines(n), <<"\n">>)

\* The decimal digits of a number, as `{}` writes a usize.
Digits == <<"0", "1", "2", "3", "4", "5", "6", "7", "8", "9">>

RECURSIVE to_decimal(_)
to_decimal(i) ==
    IF i < 10 THEN <<Digits[i + 1]>>
    ELSE to_decimal(i \div 10) \o <<Digits[(i % 10) + 1]>>

RECURSIVE zeros(_)
zeros(n) == IF n <= 0 THEN <<>> ELSE <<"0">> \o zeros(n - 1)

\* Mutant: the number is written without padding.
format_line_Unpadded(i, line, width) == to_decimal(i + 1) \o <<" ">> \o line

\* `format!("{:0width$} {}", i + 1, line, width=width)` (line 193): the
\* number is padded with zeros on the left up to width characters.
format_line(i, line, width) ==
    zeros(width - Len(to_decimal(i + 1))) \o to_decimal(i + 1) \o <<" ">> \o line

\* numbered_tree_string (lines 190-196), with `width=2`
numbered_tree_string(n) ==
    LET lines == internal_tree_lines(n)
    IN  join([k \in 1 .. Len(lines) |-> format_line(k - 1, lines[k], 2)], <<"\n">>)

\* A root with ManyNodes - 1 leaves as children.
ManyLeaves == Node("a", [i \in 1 .. ManyNodes - 1 |-> Node("b", <<>>)])

InitPrint ==
    /\ execIdle
    /\ tree \in Trees \cup {ManyLeaves}
    /\ idleCall
    /\ done = <<>>

\* tree.tree_string() is called on the root and returns.
CallTreeString ==
    /\ op = "none"
    /\ "tree_string" \notin Called
    /\ done' = Append(done, [op |-> "tree_string", func |-> "none",
                             visited |-> <<>>, result |-> tree_string(tree)])
    /\ UNCHANGED <<tree, op, stack, visited, func, res, execVars>>

\* tree.numbered_tree_string() is called on the root and returns.
CallNumberedTreeString ==
    /\ op = "none"
    /\ "numbered_tree_string" \notin Called
    /\ done' = Append(done, [op |-> "numbered_tree_string", func |-> "none",
                             visited |-> <<>>, result |-> numbered_tree_string(tree)])
    /\ UNCHANGED <<tree, op, stack, visited, func, res, execVars>>

NextPrint ==
    \/ CallTreeString
    \/ CallNumberedTreeString

SpecPrint == InitPrint /\ [][NextPrint]_vars

\* =========================================================== expressions
\* The expressions of src/src/expr.  A boxed expression (literal.rs,
\* arithmetic.rs, logical.rs) is a record of its kind and its fields; the
\* value of a literal is None (null) or Some of the text of the value.
LiteralTypes == {"Integer", "Float"}

LiteralValues(ty) == IF ty = "Integer" THEN {"1", "2"} ELSE {"1.0", "NaN"}

\* `Literal::Integer(value)`, `Literal::Float(value)`
Literal(ty, value) == [kind |-> "Literal", type |-> ty, value |-> value]

Literals ==
    UNION {{Literal(ty, None)} \cup {Literal(ty, Some(v)) : v \in LiteralValues(ty)}
           : ty \in LiteralTypes}

\* `Add::new(left, right)`, `Subtract::new(left, right)`
BinaryKinds == {"Add", "Subtract"}

Binary(kind, left, right) == [kind |-> kind, left |-> left, right |-> right]

\* `Not::new(child)`
Not(child) == [kind |-> "Not", child |-> child]

\* Literals, operators on literals and operators on these.
BoxedExprs ==
    Literals
    \cup {Not(l) : l \in Literals}
    \cup {Binary(k, l, r) : k \in BinaryKinds, l \in Literals, r \in Literals}
    \cup {Not(Not(l)) : l \in Literals}
    \cup {Binary("Add", Not(l), l) : l \in Literals}

\* `==` of f32: a NaN is equal to nothing, itself included.
f32_eq(x, y) == x = y /\ x # "NaN"

\* `==` of Option<T>, derived: both None, or both Some of equal values.
option_eq(ty, a, b) ==
    IF a = None \/ b = None THEN a = b
    ELSE IF ty = "Float" THEN f32_eq(a[1], b[1]) ELSE a[1] = b[1]

\* `#[derive(PartialEq)] enum Literal` (literal.rs line 23): the same
\* variant with equal fields.
literal_eq(a, b) == a.type = b.type /\ option_eq(a.type, a.value, b.value)

\* eq_as_expr (arithmetic.rs lines 71-78, logical.rs, literal.rs lines
\* 132-137): the other expression is downcast to the type of self, and the
\* fields are compared when it is of that type.
RECURSIVE eq_as_expr(_, _)
eq_as_expr(self, other) ==
    IF self.kind # other.kind THEN FALSE
    ELSE CASE self.kind = "Literal" -> literal_eq(self, other)
           [] self.kind = "Not" -> eq_as_expr(self.child, other.child)
           [] OTHER -> /\ eq_as_expr(self.left, other.left)
                       /\ eq_as_expr(self.right, other.right)

\* clone_as_expr: `Box::new(self.clone())` (arithmetic.rs lines 67-69), with
\* Clone building a new node of the clones of the fields (lines 92-98) and
\* `#[derive(Clone)]` for a literal.
RECURSIVE clone_as_expr(_)
clone_as_expr(self) ==
    CASE self.kind = "Literal" -> Literal(self.type, self.value)
      [] self.kind = "Not" -> Not(clone_as_expr(self.child))
      [] OTHER -> Binary(self.kind, clone_as_expr(self.left), clone_as_expr(self.right))

\* An expression of api.rs is a record of its name, its children and its
\* closures; the closures are known by name.
Built(nm, children, clone_func, eq_func) ==
    [name |-> nm, children |-> children, clone_func |-> clone_func, eq_func |-> eq_func]

\* A leaf the caller builds with ExpressionBuilder and closures of its own:
\* a clone that rebuilds the leaf, an equality on the name.
leaf(nm) == Built(nm, <<>>, "rebuild", "same_name")

\* binary (api.rs lines 245-285): `.clone(Box::new(|_| unimplemented!()))`
binary(nm, left, right) == Built(nm, <<left, right>>, "unimplemented", "binary")

\* unary (api.rs lines 288-317): `.clone(Box::new(|_| unimplemented!()))`
unary(nm, child) == Built(nm, <<child>>, "unimplemented", "unary")

ApiLeaves == {leaf(nm) : nm \in {"x", "y"}}

ApiExprs ==
    ApiLeaves
    \cup {unary("neg", c) : c \in ApiLeaves}
    \cup {binary(nm, l, r) : nm \in {"add", "sub"}, l \in ApiLeaves, r \in ApiLeaves}
    \cup {binary("add", unary("neg", l), r) : l \in ApiLeaves, r \in ApiLeaves}

\* What a call comes to: it returns a value or it panics.
Returns(value) == [kind |-> "returned", value |-> value]

Panics == [kind |-> "panic"]

\* `impl Clone for Expression`: `(self.clone_func)(self)` (api.rs lines
\* 147-151).
api_clone(self) ==
    IF self.clone_func = "unimplemented" THEN Panics
    ELSE Returns(Built(self.name, self.children, self.clone_func, self.eq_func))

\* `impl PartialEq for Expression`: `(self.eq_func)(self, other)` (api.rs
\* lines 153-157), with the closures of binary (lines 279-284) and unary
\* (lines 312-316); `&&` does not evaluate its right side when the left is
\* false.
RECURSIVE api_eq(_, _)
api_eq(a, b) ==
    CASE a.eq_func = "binary" ->
            IF a.name = b.name /\ Len(a.children) = Len(b.children)
            THEN /\ api_eq(a.children[1], b.children[1])
                 /\ api_eq(a.children[2], b.children[2])
            ELSE FALSE
      [] a.eq_func = "unary" ->
            IF a.name = b.name /\ Len(a.children) = Len(b.children)
            THEN api_eq(a.children[1], b.children[1])
            ELSE FALSE
      [] OTHER -> a.name = b.name /\ Len(a.children) = Len(b.children)

\* `#[derive(Clone)] struct TestNode` (trees.rs line 204)
RECURSIVE test_node_clone(_)
test_node_clone(n) ==
    Node(n.label, [i \in 1 .. Len(n.children) |-> test_node_clone(n.children[i])])

\* `impl PartialEq for TestNode` (trees.rs lines 223-227)
RECURSIVE test_node_eq(_, _)
test_node_eq(a, b) ==
    /\ a.label = b.label
    /\ Len(a.children) = Len(b.children)
    /\ \A i \in 1 .. Len(a.children) : test_node_eq(a.children[i], b.children[i])

\* The test nodes clone and equality are run on.
TestNodes == UNION {TreesOfSize(n) : n \in 1 .. 3}

\* The type of a tree.
TypeOf(e) ==
    IF "kind" \in DOMAIN e THEN "Box<Expression>"
    ELSE IF "eq_func" \in DOMAIN e THEN "Expression" ELSE "TestNode"

AllOfType(ty) ==
    CASE ty = "Box<Expression>" -> BoxedExprs
      [] ty = "Expression" -> ApiExprs
      [] OTHER -> TestNodes

\* clone_tree() / clone() / clone_as_expr() of a tree of either type.
clone_tree(e) ==
    CASE TypeOf(e) = "Box<Expression>" -> Returns(clone_as_expr(e))
      [] TypeOf(e) = "Expression" -> api_clone(e)
      [] OTHER -> Returns(test_node_clone(e))

\* equals() / == / eq_as_expr() of two trees of one type.
equals(a, b) ==
    CASE TypeOf(a) = "Box<Expression>" -> eq_as_expr(a, b)
      [] TypeOf(a) = "Expression" -> api_eq(a, b)
      [] OTHER -> test_node_eq(a, b)

\* `pub fn is_null(&self)` (literal.rs lines 35-45)
is_null(self) == self.value = None

\* foldable, deterministic, resolved and nullable of a boxed expression:
\* of a literal (literal.rs lines 95-110), of a binary operator
\* (arithmetic.rs lines 43-57) and of Not (logical.rs lines 127-141).
RECURSIVE foldable(_)
foldable(self) ==
    CASE self.kind = "Literal" -> TRUE
      [] self.kind = "Not" -> foldable(self.child)
      [] OTHER -> foldable(self.left) /\ foldable(self.right)

RECURSIVE deterministic(_)
deterministic(self) ==
    CASE self.kind = "Literal" -> TRUE
      [] self.kind = "Not" -> deterministic(self.child)
      [] OTHER -> deterministic(self.left) /\ deterministic(self.right)

\* Mutant: a binary operator is nullable only when both sides are.
RECURSIVE nullable_Both(_)
nullable_Both(self) ==
    CASE self.kind = "Literal" -> is_null(self)
      [] self.kind = "Not" -> nullable_Both(self.child)
      [] OTHER -> nullable_Both(self.left) /\ nullable_Both(self.right)

RECURSIVE nullable(_)
nullable(self) ==
    CASE self.kind = "Literal" -> is_null(self)
      [] self.kind = "Not" -> nullable(self.child)
      [] OTHER -> nullable(self.left) \/ nullable(self.right)

RECURSIVE resolved(_)
resolved(self) ==
    CASE self.kind = "Literal" -> TRUE
      [] self.kind = "Not" -> resolved(self.child)
      [] OTHER -> resolved(self.left) /\ resolved(self.right)

\* The same of an expression of api.rs: the closures binary (lines 261-269)
\* and unary (lines 294-302) install, and those of the caller's leaves: the
\* leaf x stands for a constant that is never null, the leaf y for a
\* nullable value that is neither foldable nor deterministic.
RECURSIVE api_foldable(_)
api_foldable(exp) ==
    CASE exp.eq_func = "binary" ->
            api_foldable(exp.children[1]) /\ api_foldable(exp.children[2])
      [] exp.eq_func = "unary" -> api_foldable(exp.children[1])
      [] OTHER -> exp.name = "x"

RECURSIVE api_deterministic(_)
api_deterministic(exp) ==
    CASE exp.eq_func = "binary" ->
            api_deterministic(exp.children[1]) /\ api_deterministic(exp.children[2])
      [] exp.eq_func = "unary" -> api_deterministic(exp.children[1])
      [] OTHER -> exp.name = "x"

RECURSIVE api_nullable(_)
api_nullable(exp) ==
    CASE exp.eq_func = "binary" ->
            api_nullable(exp.children[1]) \/ api_nullable(exp.children[2])
      [] exp.eq_func = "unary" -> api_nullable(exp.children[1])
      [] OTHER -> exp.name = "y"

\* The three predicates of an expression of either type, and resolved of a
\* boxed one.
predicates(e) ==
    IF TypeOf(e) = "Box<Expression>"
    THEN [foldable |-> foldable(e), deterministic |-> deterministic(e),
          nullable |-> nullable(e), resolved |-> resolved(e)]
    ELSE [foldable |-> api_foldable(e), deterministic |-> api_deterministic(e),
          nullable |-> api_nullable(e)]

InitExpr ==
    /\ execIdle
    /\ tree \in BoxedExprs \cup ApiExprs \cup TestNodes
    /\ idleCall
    /\ done = <<>>

\* The tree is cloned and the clone compared with the tree.
CallCloneTree ==
    /\ op = "none"
    /\ "clone_tree" \notin Called
    /\ LET copy == clone_tree(tree)
           outcome == IF copy = Panics THEN Panics
                      ELSE Returns(equals(copy.value, tree))
       IN  done' = Append(done, [op |-> "clone_tree", func |-> "none",
                                 visited |-> <<>>, result |-> outcome])
    /\ UNCHANGED <<tree, op, stack, visited, func, res, execVars>>

\* The tree is compared with a tree of its type, and that tree with it.
CallEquals ==
    /\ op = "none"
    /\ "equals" \notin Called
    /\ \E other \in AllOfType(TypeOf(tree)) :
          done' = Append(done, [op |-> "equals", func |-> "none",
                                visited |-> <<>>, other |-> other,
                                result |-> equals(tree, other),
                                back |-> equals(other, tree)])
    /\ UNCHANGED <<tree, op, stack, visited, func, res, execVars>>

\* foldable(), deterministic(), nullable() and resolved() are called on
\* the expression.
CallPredicates ==
    /\ op = "none"
    /\ "predicates" \notin Called
    /\ TypeOf(tree) # "TestNode"
    /\ done' = Append(done, [op |-> "predicates", func |-> "none",
                             visited |-> <<>>, result |-> predicates(tree)])
    /\ UNCHANGED <<tree, op, stack, visited, func, res, execVars>>

NextExpr ==
    \/ CallCloneTree
    \/ CallEquals
    \/ CallPredicates

SpecExpr == InitExpr /\ [][NextExpr]_vars

\* ================================================================ claims
\* Helpers of the claims' formulas.
RuleApplied == lastApplied # <<0, 0>>

\* The plan the latest pass started from.
PassStart == IF passTrace = <<>> THEN current_plan ELSE passTrace[1].in

\* The rules of a list applied once, first to last.
RECURSIVE ApplyAll(_, _)
ApplyAll(rules, p) ==
    IF rules = <<>> THEN p ELSE ApplyAll(Tail(rules), apply(Head(rules), p))

Min(a, b) == IF a <= b THEN a ELSE b

\* ---------------------------------------------------------------- C1
\* C1: the first rule application that leaves a non-integral plan ends the
\* run: execute returns an Err naming the rule just applied and its batch,
\* the Err carries no plan, and no step of execute follows it (no further
\* rule, pass or batch).
C1_ErrState ==
    /\ (RuleApplied /\ pc # "check" /\ ~is_plan_integral(current_plan))
          => (pc = "returned" /\ result.kind = "Err")
    /\ result.kind = "Err" =>
          /\ pc = "returned"
          /\ ~is_plan_integral(current_plan)
          /\ lastApplied = <<batchIdx, ruleIdx>>
          /\ result.rule = batch.rules[lastApplied[2] + 1]
          /\ result.batch = <<"batch", lastApplied[1]>>
          /\ DOMAIN result = {"kind", "rule", "batch"}
          /\ \A k \in 1 .. Len(passTrace) - 1 : is_plan_integral(passTrace[k].out)

\* C1: the state part above in every state, and no step of execute leaves a
\* state in which the Err was returned.
C1_IntegrityAborts ==
    /\ []C1_ErrState
    /\ [][result.kind = "Err" => FALSE]_vars

\* An Err returned in a later pass, with rules of the pass and a batch left.
C1_Witness ==
    /\ result.kind = "Err"
    /\ passes >= 1
    /\ ruleIdx + 1 < num_rules(batch)
    /\ batchIdx < numBatches

\* ---------------------------------------------------------------- C2
\* C2: in every state each rule application of the pass has been followed
\* by its integrity check, except the one application whose check is the
\* next step; a rule is applied only when all earlier ones are checked.
C2_CheckAfterEveryRule ==
    /\ pc = "check" => Len(passTrace) = checked + 1
    /\ pc # "check" => Len(passTrace) = checked
    /\ pc = "for_rule" => (passes > 0 /\ ruleIdx = 0) \/ checked = ruleIdx

C2_Witness ==
    /\ pc = "for_rule"
    /\ ruleIdx = 1
    /\ checked = 1
    /\ num_rules(batch) >= 2
    /\ passes >= 1
    /\ batchIdx >= 2

\* ---------------------------------------------------------------- C3
\* C3: a pass that ends with current_plan = last_plan ends the batch: the
\* loop is left (whatever the iteration cap) and the next step is the end
\* of the batch, which hands the same plan to the for loop over batches.
C3_StopsAtFixedPoint ==
    /\ [][(pc = "for_rule" /\ ruleIdx = Len(batch.rules)
             /\ current_plan = last_plan)
          => (pc' = "batch_end" /\ ~do_continue' /\ current_plan' = current_plan)]_vars
    /\ [][pc = "batch_end"
          => (pc' = "for_batch" /\ current_plan' = current_plan
              /\ batchIdx' = batchIdx)]_vars

\* A batch ended by a second pass without change, below its cap.
C3_Witness ==
    /\ pc = "batch_end"
    /\ passes = 2
    /\ PassStart = current_plan
    /\ passTrace # <<>>
    /\ iteration <= num_iterations(batch.strategy)

\* ---------------------------------------------------------------- C4
\* C4: the number of passes of a batch never exceeds num_iterations().
C4_PassesWithinCap ==
    batchIdx >= 1 => passes <= num_iterations(batch.strategy)

\* ---------------------------------------------------------------- C5
\* C5: a batch with Strategy Once makes exactly one pass, rules first to
\* last, each once, and ends, whether or not the pass changed the plan and
\* whether or not another pass would change it.
C5_OnceIsOnePass ==
    (batchIdx >= 1 /\ batch.strategy = Once) =>
        /\ passes <= 1
        /\ passes = 1 => pc \in {"batch_end", "for_batch", "returned"}
        /\ pc = "batch_end" =>
              /\ passes = 1
              /\ Len(passTrace) = Len(batch.rules)
              /\ \A k \in 1 .. Len(passTrace) :
                    /\ passTrace[k].i = k - 1
                    /\ passTrace[k].out = apply(batch.rules[k], passTrace[k].in)

\* A Once batch that ends although its pass changed the plan and another
\* pass would change it again.
C5_Witness ==
    /\ pc = "batch_end"
    /\ batch.strategy = Once
    /\ Len(batch.rules) = 2
    /\ batch_start_plan # current_plan
    /\ ApplyAll(batch.rules, current_plan) # current_plan

\* ---------------------------------------------------------------- C6
\* C6: execute eventually returns, whatever the batches.
C6_Returns == <>(pc = "returned")

\* ---------------------------------------------------------------- C7
\* C7: the plan changes only by the application of the rule the loops are
\* at, to the current plan; within a pass the rules are applied first to
\* last, each to the output of the one before; a new pass starts at the
\* first rule from the plan the pass before ended with; a batch is entered
\* only from the for loop over batches, after the batch before it ended,
\* and starts from the plan that batch ended with.
C7_TraceInOrder ==
    /\ \A k \in 1 .. Len(passTrace) :
          /\ passTrace[k].i = k - 1
          /\ passTrace[k].out = apply(batch.rules[k], passTrace[k].in)
          /\ k > 1 => passTrace[k].in = passTrace[k - 1].out
    /\ (passTrace # <<>> /\ pc \in {"for_rule", "check"} /\ ~(pc = "for_rule" /\ ruleIdx = 0))
          => passTrace[Len(passTrace)].out = current_plan
    /\ (pc = "for_rule" /\ ruleIdx = 0) => current_plan = last_plan
    /\ pc = "for_batch" => (batchIdx = 0 \/ ~do_continue)

\* C7: the trace of every pass is in declaration order, and the plan, the
\* rule position and the batch position move only as the loops prescribe.
C7_Sequential ==
    /\ []C7_TraceInOrder
    /\ [][current_plan' # current_plan
          => /\ pc = "for_rule"
             /\ ruleIdx < Len(batch.rules)
             /\ current_plan' = apply(batch.rules[ruleIdx + 1], current_plan)
             /\ lastApplied' = <<batchIdx, ruleIdx>>]_vars
    /\ [][lastApplied' # lastApplied
          => \/ /\ lastApplied'[1] = lastApplied[1]
                /\ \/ lastApplied'[2] = lastApplied[2] + 1
                   \/ lastApplied'[2] = 0 /\ lastApplied[2] = Len(batch.rules) - 1
             \/ /\ lastApplied'[1] > lastApplied[1]
                /\ lastApplied'[2] = 0]_vars
    /\ [][batchIdx' # batchIdx
          => /\ pc = "for_batch"
             /\ batchIdx' = batchIdx + 1
             /\ batch_start_plan' = current_plan
             /\ current_plan' = current_plan]_vars

\* The second rule of a second pass of the second batch has been applied.
C7_Witness ==
    /\ batchIdx = 2
    /\ passes >= 1
    /\ pc = "check"
    /\ ruleIdx = 1
    /\ passTrace[2].in = passTrace[1].out
    /\ passTrace[2].in # passTrace[2].out
    /\ plan # batch_start_plan

\* ---------------------------------------------------------------- C8
\* C8: one batch FixedPoint(n) holding the counter rule, started at
\* c <= Ceiling: execute returns Ok(min(c + n, Ceiling)); the batch ends by
\* convergence after Ceiling - c + 1 passes when that is at most n, and by
\* the cap after n passes otherwise.
CounterRun ==
    /\ numBatches = 1
    /\ batchIdx = 1
    /\ batch.strategy[1] = "FixedPoint"
    /\ batch.rules = <<"inc">>
    /\ plan <= Ceiling

C8_CounterResult ==
    (CounterRun /\ pc = "returned") =>
        LET n == batch.strategy[2]
        IN  /\ result = Ok(Min(plan + n, Ceiling))
            /\ IF Ceiling - plan + 1 <= n
               THEN passes = Ceiling - plan + 1 /\ "fixed point reached" \in events
               ELSE passes = n /\ "fixed point reached" \notin events

\* ---------------------------------------------------------------- C9
\* The latest pass left the plan as it was / the cap test of line 118 held.
EndedConverged == PassStart = current_plan

EndedAtCap == iteration > num_iterations(batch.strategy)

LoopEvents == events \cap {"fixed point reached", "max iterations reached"}

\* C9 as stated: a batch ends in exactly one of CONVERGED and CAP_REACHED
\* and reports that one event only.
C9_ExactlyOneTerminal ==
    pc = "batch_end" =>
        /\ EndedConverged # EndedAtCap
        /\ EndedConverged => LoopEvents = {"fixed point reached"}
        /\ (EndedAtCap /\ num_iterations(batch.strategy) > 1)
              => LoopEvents = {"max iterations reached"}
        /\ result.kind # "Err"

\* C9 as amended: a batch ends with at least one of the two holding (both
\* may hold after the same pass), each event is reported exactly when its
\* condition holds, and no error is produced.
C9_TerminalStates ==
    /\ pc = "batch_end" =>
          /\ EndedConverged \/ EndedAtCap
          /\ "fixed point reached" \in events <=> EndedConverged
          /\ "max iterations reached" \in events
                <=> (EndedAtCap /\ num_iterations(batch.strategy) > 1)
          /\ result.kind # "Err"
    /\ (pc \in {"for_rule", "check"}) => LoopEvents = {}

\* A batch whose last pass both reached the cap and left the plan as it was,
\* after an earlier pass that changed it: both events are reported.
C9_Witness ==
    /\ pc = "batch_end"
    /\ passes >= 2
    /\ LoopEvents = {"fixed point reached", "max iterations reached"}
    /\ batch_start_plan # current_plan

\* ---------------------------------------------------------------- C10
\* All references to nodes of a tree.
RECURSIVE Paths(_)
Paths(t) ==
    {<<>>} \cup UNION {{<<i - 1>> \o p : p \in Paths(t.children[i])}
                       : i \in 1 .. Len(t.children)}

\* p refers to a proper ancestor of the node of q.
IsAncestor(p, q) == Len(p) < Len(q) /\ SubSeq(q, 1, Len(p)) = p

\* p lies in a subtree to the left of the subtree q lies in.
LeftOf(p, q) ==
    \E k \in 1 .. Min(Len(p), Len(q)) :
        /\ SubSeq(p, 1, k - 1) = SubSeq(q, 1, k - 1)
        /\ p[k] < q[k]

PreOrdered(log) ==
    \A a, b \in 1 .. Len(log) :
        a < b => (IsAncestor(log[a], log[b]) \/ LeftOf(log[a], log[b]))

PostOrdered(log) ==
    \A a, b \in 1 .. Len(log) :
        a < b => (IsAncestor(log[b], log[a]) \/ LeftOf(log[a], log[b]))

\* Every node of the tree exactly once.
VisitsAll(log) ==
    /\ {log[k] : k \in 1 .. Len(log)} = Paths(tree)
    /\ Len(log) = Cardinality(Paths(tree))

\* C10: foreach invokes the visitor in pre-order (a node before its
\* descendants, subtrees left to right) and foreach_up in post-order (a node
\* after its descendants, subtrees left to right), at every point of the
\* traversal; when the call returns every node was visited exactly once.
C10_ForeachOrders ==
    /\ op = "foreach" => PreOrdered(visited)
    /\ op = "foreach_up" => PostOrdered(visited)
    /\ \A k \in 1 .. Len(done) :
          /\ done[k].op \in {"foreach", "foreach_up"} => VisitsAll(done[k].visited)
          /\ done[k].op = "foreach" => PreOrdered(done[k].visited)
          /\ done[k].op = "foreach_up" => PostOrdered(done[k].visited)

\* Both traversals returned on a tree whose root has two children, the
\* first with a child of its own.
C10_Witness ==
    /\ Called = {"foreach", "foreach_up"}
    /\ Len(tree.children) = 2
    /\ tree.children[1].children # <<>>
    /\ done[1].visited # done[2].visited

\* ---------------------------------------------------------------- C11
\* The references to the nodes of t in pre-order: the node, then the
\* subtrees of its children from the first to the last.
RECURSIVE PreOrder(_), PreOrderFrom(_, _, _)
PreOrder(t) == <<<<>>>> \o PreOrderFrom(t, 1, Len(t.children))

\* The same for the subtrees of the children lo .. hi of t.
PreOrderFrom(t, lo, hi) ==
    IF lo > hi THEN <<>>
    ELSE IF lo = hi
    THEN LET sub == PreOrder(t.children[lo])
         IN  [k \in 1 .. Len(sub) |-> <<lo - 1>> \o sub[k]]
    ELSE PreOrderFrom(t, lo, (lo + hi) \div 2)
             \o PreOrderFrom(t, (lo + hi) \div 2 + 1, hi)

\* The position in pre-order of the first node f holds of, 0 when there is
\* none.
FirstMatch(f) ==
    LET po == PreOrder(tree)
        hits == {k \in 1 .. Len(po) : Apply(f, NodeAt(tree, po[k]))}
    IN  IF hits = {} THEN 0 ELSE CHOOSE k \in hits : \A j \in hits : k <= j

\* C11: find returns the first node in pre-order that satisfies the
\* predicate (the root when the root does) and None when no node does; the
\* predicate is invoked on the nodes in pre-order up to the returned node
\* and on no node after it.
C11_FindFirst ==
    /\ op = "find" =>
          /\ visited = SubSeq(PreOrder(tree), 1, Len(visited))
          /\ \A k \in 1 .. Len(visited) :
                (k < Len(visited) \/ Top.at = "loop")
                    => ~Apply(func, NodeAt(tree, visited[k]))
    /\ \A k \in 1 .. Len(done) :
          done[k].op = "find" =>
              LET m == FirstMatch(done[k].func)
              IN  IF m = 0
                  THEN /\ done[k].result = None
                       /\ done[k].visited = PreOrder(tree)
                  ELSE /\ done[k].result = Some(PreOrder(tree)[m])
                       /\ done[k].visited = SubSeq(PreOrder(tree), 1, m)

\* find returned a node below the root although a later node in pre-order
\* satisfies the predicate too.
C11_Witness ==
    /\ Called = {"find"}
    /\ done[1].result # None
    /\ done[1].result[1] # <<>>
    /\ \E k \in 1 .. Len(PreOrder(tree)) :
          /\ k > Len(done[1].visited)
          /\ Apply(done[1].func, NodeAt(tree, PreOrder(tree)[k]))

\* ---------------------------------------------------------------- C12
\* f of every node of the tree, in pre-order.
MapOf(f) ==
    [k \in 1 .. Len(PreOrder(tree)) |-> Apply(f, NodeAt(tree, PreOrder(tree)[k]))]

RECURSIVE Flatten(_)
Flatten(seqs) == IF seqs = <<>> THEN <<>> ELSE Head(seqs) \o Flatten(Tail(seqs))

\* The values of a sequence of options, the Nones dropped.
Somes(opts) ==
    LET kept == SelectSeq(opts, LAMBDA x : x # None)
    IN  [k \in 1 .. Len(kept) |-> kept[k][1]]

\* The nodes of the tree, in pre-order.
NodesInPreOrder == [k \in 1 .. Len(PreOrder(tree)) |-> NodeAt(tree, PreOrder(tree)[k])]

\* C12: map(f) is f of every node in pre-order (as many values as nodes),
\* flat_map(f) the concatenation of these, collect(pf) these without the
\* Nones and in the same order, collect_leaves() the leaves in pre-order.
C12_Collecting ==
    op = "none" => \A k \in 1 .. Len(done) :
        /\ done[k].op = "map" =>
              /\ done[k].result = MapOf(done[k].func)
              /\ Len(done[k].result) = Cardinality(Paths(tree))
        /\ done[k].op = "flat_map" =>
              done[k].result = Flatten(MapOf(done[k].func))
        /\ done[k].op = "collect" =>
              done[k].result = Somes(MapOf(done[k].func))
        /\ done[k].op = "collect_leaves" =>
              done[k].result = SelectSeq(NodesInPreOrder, is_leaf)

\* The four operations returned on a tree with two leaves under different
\* parents and an inner node that is not the root.
C12_Witness ==
    /\ Called = {"map", "flat_map", "collect", "collect_leaves"}
    /\ Len(done[4].result) >= 2
    /\ Len(tree.children) = 2
    /\ tree.children[1].children # <<>>
    /\ done[2].result # <<>>
    /\ Len(done[3].result) \in 1 .. Len(done[1].result) - 1

\* ---------------------------------------------------------------- C13
\* The places of the log of a transform, in the order of the invocations.
Places(log) == [j \in 1 .. Len(log) |-> log[j].pos]

\* The references to the children of the root, first to last.
ChildPlaces(t) == [j \in 1 .. Len(t.children) |-> <<j - 1>>]

\* C13: map_children(f) invokes f once on each child of the node, first to
\* last, and on no deeper node; it returns a node of the same label and
\* the same number of children whose i-th child is f of the i-th child of
\* the node, and an equal node when the node is a leaf.
C13_MapChildren ==
    /\ op = "map_children" =>
          /\ Places(visited) = SubSeq(ChildPlaces(tree), 1, Len(visited))
          /\ Top.idx = Len(visited)
    /\ op = "none" => \A k \in 1 .. Len(done) :
          done[k].op = "map_children" =>
              LET out == done[k].result
                  log == done[k].visited
              IN  /\ Places(log) = ChildPlaces(tree)
                  /\ \A j \in 1 .. Len(log) : log[j].arg = tree.children[j]
                  /\ out.label = tree.label
                  /\ Len(out.children) = Len(tree.children)
                  /\ \A i \in 1 .. Len(out.children) :
                        out.children[i] = child_func(done[k].func, tree.children[i])
                  /\ is_leaf(tree) => out = tree

\* map_children returned a changed node for a root of two children or
\* more, the first with children of its own.
C13_Witness ==
    /\ Called = {"map_children"}
    /\ Len(tree.children) >= 2
    /\ ~is_leaf(tree.children[1])
    /\ done[1].result # tree
    /\ \A i \in 1 .. Len(tree.children) : done[1].result.children[i] # tree.children[i]

\* ---------------------------------------------------------------- C14
\* The node the children of which transform_down goes on with: the
\* replacement when the rule returns one, the node itself otherwise.
Base(r, n) == IF rule(r, n) = None THEN n ELSE rule(r, n)[1]

\* The rule applied to a node before its children, then to the children of
\* what it made of the node.
RECURSIVE TopDown(_, _)
TopDown(r, t) ==
    Node(Base(r, t).label,
         [i \in 1 .. Len(Base(r, t).children) |-> TopDown(r, Base(r, t).children[i])])

\* The node the rule was invoked on for place pos.
ArgAt(log, pos) == log[CHOOSE j \in 1 .. Len(log) : log[j].pos = pos].arg

Parent(pos) == SubSeq(pos, 1, Len(pos) - 1)

\* C14: transform_down applies the rule to a node before its children; it
\* goes on with the children of the replacement when the rule returned
\* one, with the children of the node otherwise, and does not apply the
\* rule to the replacement itself: the rule is invoked once for every node
\* place of the returned tree, in pre-order.
C14_TransformDown ==
    /\ op = "transform_down" =>
          \A i, j \in 1 .. Len(visited) : visited[i].pos = visited[j].pos => i = j
    /\ op = "none" => \A k \in 1 .. Len(done) :
          done[k].op = "transform_down" =>
              LET out == done[k].result
                  log == done[k].visited
                  r == done[k].func
              IN  /\ out = TopDown(r, tree)
                  /\ Places(log) = PreOrder(out)
                  /\ \A j \in 1 .. Len(log) :
                        /\ log[j].arg =
                              IF log[j].pos = <<>> THEN tree
                              ELSE Base(r, ArgAt(log, Parent(log[j].pos)))
                                       .children[log[j].pos[Len(log[j].pos)] + 1]
                        /\ NodeAt(out, log[j].pos).label = Base(r, log[j].arg).label
                        /\ Len(NodeAt(out, log[j].pos).children)
                              = Len(Base(r, log[j].arg).children)

\* transform_down returned a tree of more nodes than the tree it was called
\* on: the rule replaced a node below the root and was invoked on the
\* children the replacement brought.
C14_Witness ==
    /\ Called = {"transform_down"}
    /\ done[1].func = "grow"
    /\ tree.label = "b"
    /\ Len(done[1].visited) > Cardinality(Paths(tree))
    /\ \E j \in 1 .. Len(done[1].visited) :
          /\ Len(done[1].visited[j].pos) = 2
          /\ done[1].visited[j].pos \notin Paths(tree)

\* ---------------------------------------------------------------- C15
\* The references to the nodes of t in post-order: the subtrees of the
\* children from the first to the last, then the node.
RECURSIVE PostOrder(_), PostOrderFrom(_, _)
PostOrder(t) == PostOrderFrom(t, 1) \o <<<<>>>>

PostOrderFrom(t, i) ==
    IF i > Len(t.children) THEN <<>>
    ELSE LET sub == PostOrder(t.children[i])
         IN  [k \in 1 .. Len(sub) |-> <<i - 1>> \o sub[k]] \o PostOrderFrom(t, i + 1)

\* The rule applied to a node after its children: to the node with the
\* children already transformed.
RECURSIVE BottomUp(_, _)
BottomUp(r, t) ==
    Base(r, Node(t.label, [i \in 1 .. Len(t.children) |-> BottomUp(r, t.children[i])]))

\* The calls of transform_up that returned are as the claim says.
C15_UpReturned ==
    op = "none" => \A k \in 1 .. Len(done) :
        done[k].op = "transform_up" =>
            LET out == done[k].result
                log == done[k].visited
                r == done[k].func
            IN  /\ out = BottomUp(r, tree)
                /\ out = Base(r, log[Len(log)].arg)
                /\ Places(log) = PostOrder(tree)
                /\ Len(log) = Cardinality(Paths(tree))
                /\ \A j \in 1 .. Len(log) :
                      log[j].arg =
                          Node(NodeAt(tree, log[j].pos).label,
                               [i \in 1 .. Len(NodeAt(tree, log[j].pos).children) |->
                                   Base(r, ArgAt(log, Append(log[j].pos, i - 1)))])

\* C15: transform_up applies the rule to a node only after all its children
\* were transformed, to the node with the transformed children; what the
\* rule returns is the result and is not traversed again, and the node with
\* the transformed children is the result when the rule returns nothing.
\* The rule is invoked once for every node of the tree the call was made
\* on, in post-order, and every call of transform_up returns.
C15_TransformUp ==
    /\ []C15_UpReturned
    /\ [](op = "transform_up" => Places(visited) = SubSeq(PostOrder(tree), 1, Len(visited)))
    /\ (op = "transform_up") ~> (op = "none")

\* transform_up returned a smaller tree: the rule cut children of the root
\* and of its first child.
C15_Witness ==
    /\ Called = {"transform_up"}
    /\ done[1].func = "truncate"
    /\ Len(tree.children) >= 2
    /\ Len(tree.children[1].children) >= 2
    /\ Len(done[1].result.children) = 1
    /\ Len(done[1].result.children[1].children) = 1

\* ---------------------------------------------------------------- C16
\* C16: map_children, transform_down and transform_up do not modify the
\* tree they are called on: no step of a call changes it, whatever the
\* tree and the rule, replacements of fewer or of more children included.
C16_InputUntouched == [][tree' = tree]_vars

\* A transform returned a tree whose root has more children than the root
\* it was called on, which had children too.
C16_Witness ==
    /\ Called \subseteq {"map_children", "transform_down", "transform_up"}
    /\ Called # {}
    /\ done[1].func = "grow"
    /\ ~is_leaf(tree)
    /\ Len(done[1].result.children) > Len(tree.children)
    /\ Len(done[1].visited) > 1

\* ---------------------------------------------------------------- C17
\* The lines of a string: the parts between its newlines.
Lines(str) ==
    LET nls == {k \in 1 .. Len(str) : str[k] = "\n"}
        \* the place of the i-th newline; 0 and Len(str) + 1 bound the string
        nl == [i \in 0 .. Cardinality(nls) + 1 |->
                 IF i = 0 THEN 0
                 ELSE IF i > Cardinality(nls) THEN Len(str) + 1
                 ELSE CHOOSE k \in nls : Cardinality({j \in nls : j < k}) = i - 1]
    IN  [i \in 1 .. Cardinality(nls) + 1 |-> SubSeq(str, nl[i - 1] + 1, nl[i] - 1)]

\* The node at path p is the last child of its parent.
IsLastChild(t, p) == p[Len(p)] = Len(NodeAt(t, Parent(p)).children) - 1

EndsWith(str, suffix) ==
    /\ Len(str) >= Len(suffix)
    /\ SubSeq(str, Len(str) - Len(suffix) + 1, Len(str)) = suffix

\* The strings tree_string and numbered_tree_string returned for the tree.
Printed(o) == {done[k].result : k \in {j \in 1 .. Len(done) : done[j].op = o}}

\* C17: tree_string has one line for every node, in pre-order, joined by
\* newlines with none at the end; the line of the root is its label, the
\* line of another node ends with "+- " and its label when the node is the
\* last child of its parent and with ":- " and its label otherwise.
C17_TreeStringLines ==
    \A out \in Printed("tree_string") :
        LET lines == Lines(out)
            po == PreOrder(tree)
        IN  /\ Len(lines) = Len(po)
            /\ out[Len(out)] # "\n"
            /\ lines[1] = <<tree.label>>
            /\ \A k \in 2 .. Len(po) :
                  EndsWith(lines[k],
                           (IF IsLastChild(tree, po[k]) THEN <<"+", "-", " ">>
                            ELSE <<":", "-", " ">>) \o <<NodeAt(tree, po[k]).label>>)

\* tree_string returned for a tree whose root has a first child with two
\* children and a child after it.
C17_Witness ==
    /\ Printed("tree_string") # {}
    /\ Len(tree.children) = 2
    /\ Len(tree.children[1].children) = 2

\* ---------------------------------------------------------------- C18
\* The k-th group of three characters of a line.
Group(line, k) == SubSeq(line, 3 * k - 2, 3 * k)

\* C18: in tree_string the line of a node at depth d >= 1 has 3 * d
\* characters before the label, and for every proper ancestor at depth k,
\* 1 <= k < d, the k-th group of three characters is ":  " when the
\* ancestor is not the last child of its parent and three spaces when it is.
C18_Indentation ==
    \A out \in Printed("tree_string") :
        LET lines == Lines(out)
            po == PreOrder(tree)
        IN  \A j \in 2 .. Len(po) :
                LET d == Len(po[j])
                IN  /\ Len(lines[j]) = 3 * d + 1
                    /\ lines[j][3 * d + 1] = NodeAt(tree, po[j]).label
                    /\ \A k \in 1 .. d - 1 :
                          Group(lines[j], k) =
                              IF IsLastChild(tree, SubSeq(po[j], 1, k))
                              THEN <<" ", " ", " ">> ELSE <<":", " ", " ">>

\* tree_string returned for a tree with a node at depth 3 below an ancestor
\* that is a last child and an ancestor that is not.
C18_Witness ==
    /\ Printed("tree_string") # {}
    /\ \E p \in Paths(tree) :
          /\ Len(p) = 3
          /\ IsLastChild(tree, SubSeq(p, 1, 1)) # IsLastChild(tree, SubSeq(p, 1, 2))

\* ---------------------------------------------------------------- C19
Range(f) == {f[x] : x \in DOMAIN f}

\* The number a sequence of decimal digits writes.
RECURSIVE Value(_)
Value(digits) ==
    IF digits = <<>> THEN 0
    ELSE 10 * Value(SubSeq(digits, 1, Len(digits) - 1))
         + (CHOOSE v \in 0 .. 9 : Digits[v + 1] = digits[Len(digits)])

\* The characters of a line up to its first space.
UpToSpace(line) ==
    SubSeq(line, 1, (CHOOSE k \in 1 .. Len(line) :
                        line[k] = " " /\ \A j \in 1 .. k - 1 : line[j] # " ") - 1)

\* C19: numbered_tree_string has as many lines as tree_string; its i-th
\* line is the decimal number i, padded with zeros on the left to two
\* digits at least, one space and the i-th line of tree_string: the
\* numbers start at 1 and go up by one in pre-order.
C19_NumberedLines ==
    \A out \in Printed("numbered_tree_string") :
        LET lines == Lines(out)
            plain == Lines(tree_string(tree))
        IN  /\ Len(lines) = Len(plain)
            /\ \A i \in 1 .. Len(lines) :
                  LET number == UpToSpace(lines[i])
                  IN  /\ \A k \in 1 .. Len(number) : number[k] \in Range(Digits)
                      /\ Value(number) = i
                      /\ Len(number) >= 2
                      /\ Len(number) > 2 => number[1] # "0"
                      /\ lines[i] = number \o <<" ">> \o plain[i]

\* numbered_tree_string returned for the tree of more than 99 nodes, and
\* tree_string before it.
C19_Witness ==
    /\ Printed("numbered_tree_string") # {}
    /\ Printed("tree_string") # {}
    /\ done[2].op = "numbered_tree_string"
    /\ Cardinality(Paths(tree)) > 99

\* ---------------------------------------------------------------- C20
\* C20: for every tree, a test node or an expression of literals, unary
\* and binary operators, the clone of the tree equals the tree; two trees
\* that differ (in the kind or label of a node, the value of a literal, the
\* number or the order of children) are not equal; a tree equals itself,
\* and a equals b just when b equals a.
C20_CloneEqualsRoundTrip ==
    \A k \in 1 .. Len(done) :
        /\ done[k].op = "clone_tree" => done[k].result = Returns(TRUE)
        /\ done[k].op = "equals" =>
              /\ done[k].result = (done[k].other = tree)
              /\ done[k].back = done[k].result

\* ---------------------------------------------------------------- C21
\* The operands of an operator expression of either type, first to last.
Operands(e) ==
    IF TypeOf(e) = "Expression" THEN e.children
    ELSE CASE e.kind = "Literal" -> <<>>
           [] e.kind = "Not" -> <<e.child>>
           [] OTHER -> <<e.left, e.right>>

\* C21: a binary operator is foldable just when both operands are,
\* deterministic just when both are and nullable just when one at least
\* is; a unary operator is what its operand is on all three; a literal is
\* foldable, deterministic and resolved, and nullable just when its value
\* is null.
C21_Predicates ==
    \A k \in 1 .. Len(done) :
        done[k].op = "predicates" =>
            LET is == done[k].result
                of == [i \in 1 .. Len(Operands(tree)) |-> predicates(Operands(tree)[i])]
            IN  /\ Len(of) = 2 =>
                      /\ is.foldable = (of[1].foldable /\ of[2].foldable)
                      /\ is.deterministic = (of[1].deterministic /\ of[2].deterministic)
                      /\ is.nullable = (of[1].nullable \/ of[2].nullable)
                /\ Len(of) = 1 =>
                      /\ is.foldable = of[1].foldable
                      /\ is.deterministic = of[1].deterministic
                      /\ is.nullable = of[1].nullable
                /\ (TypeOf(tree) = "Box<Expression>" /\ tree.kind = "Literal") =>
                      /\ is.foldable
                      /\ is.deterministic
                      /\ is.resolved
                      /\ is.nullable = (tree.value = None)

\* The predicates were asked of a binary operator with a null literal on
\* the right and a literal that is not null on the left.
C21_Witness ==
    /\ "predicates" \in Called
    /\ TypeOf(tree) = "Box<Expression>"
    /\ tree.kind = "Add"
    /\ tree.left.kind = "Literal"
    /\ tree.left.value # None
    /\ tree.right = Literal("Integer", None)

\* ---------------------------------------------------------------- C22
BatchReports == events \cap {"has no effect", "updated current plan"}

\* C22: batch_start is the plan the batch was entered with, whatever the
\* passes do to the plan; when the batch ends it is reported as having no
\* effect just when the plan equals batch_start and as updated otherwise;
\* the report changes neither the plan nor the result, and the loop over
\* the batches goes on from the same place in both cases.
C22_BatchReport ==
    [][ /\ batchIdx' # batchIdx =>
              batch_start_plan' = current_plan /\ current_plan' = current_plan
        /\ batchIdx' = batchIdx => batch_start_plan' = batch_start_plan
        /\ pc = "batch_end" =>
              /\ BatchReports = {}
              /\ BatchReports' = IF current_plan = batch_start_plan
                                 THEN {"has no effect"}
                                 ELSE {"updated current plan"}
              /\ pc' = "for_batch"
              /\ UNCHANGED <<current_plan, batchIdx, numBatches, result>>
      ]_vars

\* A batch whose first pass changed the plan and whose later pass changed
\* it back was reported as having no effect.
C22_Witness ==
    /\ pc = "for_batch"
    /\ "has no effect" \in events
    /\ passes = 2
    /\ passTrace # <<>>
    /\ passTrace[1].in # batch_start_plan
    /\ current_plan = batch_start_plan

\* ---------------------------------------------------------------- C23
\* C23: the counter starts at 1 and never overflows or wraps; a batch of
\* strategy FixedPoint(n) whose plan changed on every pass ends by the cap
\* test after exactly n passes, the counter being n + 1, for every n up to
\* and including 65535.
C23_CapAfterNPasses ==
    /\ pc # "panicked"
    /\ iteration >= 1
    /\ (pc = "batch_end" /\ "fixed point reached" \notin events) =>
          /\ passes = num_iterations(batch.strategy)
          /\ iteration = num_iterations(batch.strategy) + 1

\* ---------------------------------------------------------------- C24
\* C24: the plan of the caller is never modified, so that it has its value
\* of before the call when execute has returned; and the step that
\* replaces the current plan by the output of a rule leaves last_plan and
\* batch_start_plan as they were.
C24_SnapshotsApart ==
    [][ /\ plan' = plan
        /\ (pc = "for_rule" /\ pc' = "check") =>
              UNCHANGED <<last_plan, batch_start_plan>>
      ]_vars

\* A rule has just been applied, and the caller's plan, the plan the batch
\* started with, the plan of the end of the pass before and the current
\* plan are four different plans.
C24_Witness ==
    /\ pc = "check"
    /\ plan # batch_start_plan
    /\ batch_start_plan # last_plan
    /\ last_plan # current_plan
    /\ current_plan \notin {plan, batch_start_plan}

\* ---------------------------------------------------------------- C25
\* The rule returned no replacement at any of the invocations of the log.
NeverApplied(r, log) == \A j \in 1 .. Len(log) : rule(r, log[j].arg) = None

\* C25: when the rule returns no replacement at any node, transform_down
\* and transform_up return a tree equal to the one they were called on and
\* invoke the rule once on every node of it.
C25_RuleNeverApplies ==
    op = "none" => \A k \in 1 .. Len(done) :
        (/\ done[k].op \in {"transform_down", "transform_up"}
         /\ NeverApplied(done[k].func, done[k].visited)) =>
            LET log == done[k].visited
            IN  /\ done[k].result = tree
                /\ Len(log) = Cardinality(Paths(tree))
                /\ {log[j].pos : j \in 1 .. Len(log)} = Paths(tree)
                /\ \A j \in 1 .. Len(log) : log[j].arg = NodeAt(tree, log[j].pos)

\* A transform returned for a rule that replaces the nodes labelled a,
\* called on a tree of three levels that has none.
C25_Witness ==
    /\ Called \subseteq {"transform_down", "transform_up"}
    /\ Called # {}
    /\ done[1].func = "relabel"
    /\ NeverApplied("relabel", done[1].visited)
    /\ \E p \in Paths(tree) : Len(p) = 2
    /\ Len(tree.children) >= 2

\* ---------------------------------------------------------------- C26
\* What is returned when no rule was applied, and when one was.
C26_OkState ==
    /\ ~RuleApplied =>
          /\ current_plan = plan
          /\ result.kind # "Err"
    /\ result.kind = "Ok" =>
          /\ result.plan = current_plan
          /\ ~RuleApplied => result.plan = plan
          /\ RuleApplied => is_plan_integral(result.plan)

\* C26: the current plan is the caller's plan until a rule is applied and
\* the output of the last rule application from then on; the plan in an Ok
\* is the current plan, which passed the integrity check when a rule was
\* applied and is the caller's plan, never checked, when none was.
C26_ReturnedPlan ==
    /\ []C26_OkState
    /\ [][ IF pc = "for_rule" /\ pc' = "check"
           THEN /\ lastApplied' # <<0, 0>>
                /\ current_plan' = passTrace'[Len(passTrace')].out
           ELSE UNCHANGED <<current_plan, lastApplied>>
         ]_vars

\* A plan that does not pass the integrity check was returned in an Ok
\* after two batches without rules.
C26_Witness ==
    /\ result.kind = "Ok"
    /\ ~is_plan_integral(result.plan)
    /\ ~RuleApplied
    /\ batchIdx = 2

\* ---------------------------------------------------------------- C27
\* The pass in passTrace applied every rule of the batch once, first to
\* last, starting from plan p.
FullPassFrom(p) ==
    /\ Len(passTrace) = num_rules(batch)
    /\ \A k \in 1 .. Len(passTrace) :
          /\ passTrace[k].i = k - 1
          /\ passTrace[k].in = IF k = 1 THEN p ELSE passTrace[k - 1].out

InLoop == pc \in {"for_rule", "check"}

C28_EndsAtFixedPoint ==
    pc = "batch_end" =>
        /\ "fixed point reached" \in events =>
              /\ current_plan = last_plan
              /\ ApplyAll(batch.rules, current_plan) = current_plan
        /\ "fixed point reached" \in events
              <=> ApplyAll(batch.rules, PassStart) = PassStart

\* A second batch ended as converged by a pass whose first rule changed
\* the plan and whose second rule changed it back, below the cap.
C28_Witness ==
    /\ pc = "batch_end"
    /\ batchIdx = 2
    /\ "fixed point reached" \in events
    /\ Len(passTrace) = 2
    /\ passTrace[1].out # passTrace[1].in
    /\ passTrace[2].out = passTrace[1].in
    /\ plan # current_plan
    /\ "max iterations reached" \notin events
    /\ num_iterations(batch.strategy) > 1

\* ---------------------------------------------------------------- C29
\* The plan one pass of the batch makes of p.
PassOf(p) == ApplyAll(batch.rules, p)

\* The run is at its only batch, of strategy FixedPoint(n) with n >= 1,
\* whose pass exchanges the caller's plan A and another plan B.
Oscillating ==
    /\ numBatches = 1
    /\ batchIdx = 1
    /\ batch.strategy[1] = "FixedPoint"
    /\ batch.strategy[2] >= 1
    /\ PassOf(plan) # plan
    /\ PassOf(PassOf(plan)) = plan

\* C29: such a batch is never found converged; it makes n passes and no
\* more, ends by the cap after the n-th, and execute returns the caller's
\* plan A when n is even and the other plan B when n is odd.
C29_Oscillation ==
    Oscillating =>
        LET n == batch.strategy[2]
            last == IF n % 2 = 0 THEN plan ELSE PassOf(plan)
        IN  /\ "fixed point reached" \notin events
            /\ pc # "panicked"
            /\ passes <= n
            /\ pc \in {"batch_end", "for_batch", "returned"} =>
                  /\ passes = n
                  /\ iteration = n + 1
                  /\ current_plan = last
            /\ pc = "returned" => result = Ok(last)

\* ---------------------------------------------------------------- C30
\* The trees the rules are classified on.
SmallTrees == UNION {TreesOfSize(n) : n \in 1 .. 3}

\* The rules that look at the label of the node only and return nothing
\* or a node of another label with the children of the node.
LabelRules ==
    {r \in TreeRules :
        /\ \A n \in SmallTrees :
              rule(r, n) # None =>
                  /\ rule(r, n)[1].children = n.children
                  /\ rule(r, n)[1].label # n.label
        /\ \A n, m \in SmallTrees :
              n.label = m.label =>
                  /\ (rule(r, n) = None) = (rule(r, m) = None)
                  /\ rule(r, n) # None => rule(r, n)[1].label = rule(r, m)[1].label}

\* The places of the nodes of two trees are the same.
SameShape(s, t) == Paths(s) = Paths(t)

\* C30: for a rule of that kind, transform_down and transform_up called on
\* the same tree return equal trees, each of the shape of the tree.
C30_DownEqualsUp ==
    (op = "none" /\ Called = {"transform_down", "transform_up"}
       /\ done[1].func \in LabelRules) =>
        /\ done[1].op = "transform_down"
        /\ done[2].op = "transform_up"
        /\ done[2].func = done[1].func
        /\ done[1].result = done[2].result
        /\ SameShape(done[1].result, tree)
        /\ SameShape(done[2].result, tree)

\* Both transforms returned for the rule that relabels, on a tree of
\* three levels whose root and a grandchild the rule replaces.
C30_Witness ==
    /\ op = "none"
    /\ Called = {"transform_down", "transform_up"}
    /\ done[1].func = "relabel"
    /\ "relabel" \in LabelRules
    /\ tree.label = "a"
    /\ \E p \in Paths(tree) : Len(p) = 2 /\ NodeAt(tree, p).label = "a"
    /\ done[2].result # tree

====
